---- MODULE Spec2Model ----
(***************************************************************************)
(* Business-Intelligence-Bot: the business-analysis pipeline               *)
(* (app/business_analysis/service.py) and the risk-assessment pipeline     *)
(* (app/risk_assessment/service.py), modelled as state machines.           *)
(*                                                                         *)
(* Text is modelled by TLA+ strings handled character by character         *)
(* (Len, SubSeq, \o).  A Python value held in a request mapping is a       *)
(* tagged record: PyStr(s), PyInt(n) or PyNone.  A Python dict is a function     *)
(* from the set of its keys.                                               *)
(***************************************************************************)
EXTENDS Integers, Sequences, FiniteSets, TLC

VARIABLES
    pc,             \* position in the running operation
    business_data,  \* the request mapping (a Python dict)
    now,            \* time.time() as read by the identifier generator
    analysis_id,    \* identifier generated before the completion call
    structured_data,\* BusinessData built from business_data
    prompt,         \* rendered prompt (list of lines)
    content,        \* completion text handed to the parser
    completion_calls,   \* chat-completion requests issued so far
    completion_outcome, \* how the last chat-completion request ended
    result,         \* value returned (or exception raised) by the operation
    use_rag,        \* RiskAssessmentService.use_rag
    hash_seed,      \* the process's string-hash seed
    rag_response,   \* what query_assistant returned
    run_status,     \* query_assistant: run.status, "none" outside the call
    elapsed,        \* query_assistant: time.time() - start_time, in seconds
    retrievals,     \* query_assistant: status retrievals made by the call so far
    runs_created,   \* assistant runs created for the request
    messages,       \* query_assistant: what messages.list gave for the thread
    first_result,   \* what the parser returned before it was called again
    handler,        \* the Lambda function invoked, "none" when a service is called directly
    event,          \* lambda_handler: event
    context,        \* lambda_handler: context, and the time it reports as remaining
    api_key,        \* whether OPENAI_API_KEY is set
    response,       \* what lambda_handler returned
    other           \* the locals of a second invocation in the process, <<>> when there is none

\* the variables only the risk-assessment pipeline writes
riskVars == <<use_rag, hash_seed, rag_response>>

\* the variables only the business-analysis pipeline writes
analysisVars == <<now, analysis_id, prompt>>

\* the variables only query_assistant writes
queryVars == <<run_status, elapsed, retrievals, runs_created, messages>>

vars == <<pc, business_data, now, analysis_id, structured_data, prompt,
          content, completion_calls, completion_outcome, result,
          use_rag, hash_seed, rag_response, run_status, elapsed, retrievals,
          runs_created, messages, first_result, handler, event, context, api_key, response,
          other>>

\* the variables only lambda_handler reads and writes
handlerVars == <<handler, event, context, api_key, response, other>>

NoResponse == [statusCode |-> 0, body |-> [pending |-> TRUE]]

\* the service is called directly, not by lambda_handler
NoEvent ==
    /\ handler = "none"
    /\ event = [pending |-> TRUE]
    /\ context = [present |-> FALSE, remaining |-> 0]
    /\ api_key = TRUE
    /\ response = NoResponse
    /\ other = <<>>

\* no call of query_assistant is in progress and none has been made
NotListed == [state |-> "none", data |-> <<>>]

NoQuery ==
    /\ run_status = "none" /\ elapsed = 0 /\ retrievals = 0 /\ runs_created = 0
    /\ messages = NotListed

----------------------------------------------------------------------------
(* Python values *)

PyStr(s) == [t |-> "str", v |-> s]

PyInt(n) == [t |-> "int", v |-> n]

PyNone == [t |-> "none", v |-> ""]

\* a list, given as a sequence of values
PyList(q) == [t |-> "list", v |-> q]

\* a dict, given as a sequence of <<key, value>> pairs in insertion order
PyDict(q) == [t |-> "dict", v |-> q]

PyBool(b) == [t |-> "bool", v |-> b]

IsStr(x) == x.t = "str"

\* bool(x)
Truthy(x) ==
    CASE x.t = "str" -> x.v # ""
      [] x.t = "int" -> x.v # 0
      [] x.t \in {"list", "dict"} -> x.v # <<>>
      [] x.t = "bool" -> x.v
      [] OTHER -> FALSE

\* x != y for Python values (values of different types are unequal)
PyNe(x, y) == x.t # y.t \/ x.v # y.v

\* d.get(key) or default: a falsy value is passed over like a missing key
Get_or_default(d, key, default) ==
    IF key \in DOMAIN d /\ Truthy(d[key]) THEN d[key] ELSE default

\* dict.get(key, default)
Get(d, key, default) == IF key \in DOMAIN d THEN d[key] ELSE default

Digits == <<"0", "1", "2", "3", "4", "5", "6", "7", "8", "9">>

RECURSIVE NatStr(_)
\* str(n) for n >= 0
NatStr(n) == IF n < 10 THEN Digits[n + 1] ELSE NatStr(n \div 10) \o Digits[(n % 10) + 1]

IntStr(n) == IF n < 0 THEN "-" \o NatStr(0 - n) ELSE NatStr(n)

RECURSIVE PyRepr(_)
RECURSIVE ReprItems(_, _)
RECURSIVE ReprPairs(_, _)

\* ", ".join(repr(x) for x in q[i:])
ReprItems(q, i) ==
    IF i > Len(q) THEN ""
    ELSE PyRepr(q[i]) \o (IF i < Len(q) THEN ", " ELSE "") \o ReprItems(q, i + 1)

\* ", ".join(repr(k) + ": " + repr(v) for k, v in q[i:])
ReprPairs(q, i) ==
    IF i > Len(q) THEN ""
    ELSE "'" \o q[i][1] \o "': " \o PyRepr(q[i][2])
         \o (IF i < Len(q) THEN ", " ELSE "") \o ReprPairs(q, i + 1)

\* repr(x), for strings that hold no quote or escape
PyRepr(x) ==
    CASE x.t = "str" -> "'" \o x.v \o "'"
      [] x.t = "int" -> IntStr(x.v)
      [] x.t = "bool" -> (IF x.v THEN "True" ELSE "False")
      [] x.t = "list" -> "[" \o ReprItems(x.v, 1) \o "]"
      [] x.t = "dict" -> "{" \o ReprPairs(x.v, 1) \o "}"
      [] OTHER -> "None"

\* str(x), which is also how an f-string renders x
PyFormat(x) == IF x.t = "str" THEN x.v ELSE PyRepr(x)

----------------------------------------------------------------------------
(* str methods *)

Ch(s, i) == SubSeq(s, i, i)

IsSpace(c) == c \in {" ", "\n", "\t", "\r"}

RECURSIVE FirstNonSpace(_, _)
FirstNonSpace(s, i) ==
    IF i > Len(s) THEN i
    ELSE IF IsSpace(Ch(s, i)) THEN FirstNonSpace(s, i + 1) ELSE i

RECURSIVE LastNonSpace(_, _)
LastNonSpace(s, i) ==
    IF i < 1 THEN i
    ELSE IF IsSpace(Ch(s, i)) THEN LastNonSpace(s, i - 1) ELSE i

\* s.strip()
Strip(s) == SubSeq(s, FirstNonSpace(s, 1), LastNonSpace(s, Len(s)))

\* s.startswith(p)
StartsWith(s, p) == Len(s) >= Len(p) /\ SubSeq(s, 1, Len(p)) = p

\* the least element of a non-empty set of integers
Least(S) == CHOOSE k \in S : \A j \in S : k <= j

\* s.find(p, i): least index >= i at which p occurs in s, 0 when there is none
Find(s, p, i) ==
    LET hits == {k \in i..(Len(s) - Len(p) + 1) : SubSeq(s, k, k + Len(p) - 1) = p}
    IN  IF hits = {} THEN 0 ELSE Least(hits)

RECURSIVE Split(_, _)
\* s.split(sep)
Split(s, sep) ==
    LET k == Find(s, sep, 1)
    IN  IF k = 0 THEN <<s>>
        ELSE <<SubSeq(s, 1, k - 1)>> \o Split(SubSeq(s, k + Len(sep), Len(s)), sep)

RECURSIVE Remove(_, _)
\* s.replace(p, "")
Remove(s, p) ==
    LET k == Find(s, p, 1)
    IN  IF k = 0 THEN s
        ELSE SubSeq(s, 1, k - 1) \o Remove(SubSeq(s, k + Len(p), Len(s)), p)

RECURSIVE Join(_, _)
\* sep.join(lines)
Join(lines, sep) ==
    IF Len(lines) = 0 THEN ""
    ELSE IF Len(lines) = 1 THEN lines[1]
    ELSE lines[1] \o sep \o Join(Tail(lines), sep)

----------------------------------------------------------------------------
(* BusinessAnalysisService._parse_analysis_response *)

TextFields ==
    <<"industryClassification", "marketPosition", "growthPotential",
      "strengthsAndAdvantages", "marketOpportunities",
      "strategicRecommendations", "businessOverview">>

\* the elif chain of line prefixes, in source order
Prefixes ==
    << [p |-> "INDUSTRY_CLASSIFICATION:",    f |-> "industryClassification"],
       [p |-> "MARKET_POSITION:",            f |-> "marketPosition"],
       [p |-> "GROWTH_POTENTIAL:",           f |-> "growthPotential"],
       [p |-> "STRENGTHS_ADVANTAGES:",       f |-> "strengthsAndAdvantages"],
       [p |-> "MARKET_OPPORTUNITIES:",       f |-> "marketOpportunities"],
       [p |-> "STRATEGIC_RECOMMENDATIONS:",  f |-> "strategicRecommendations"],
       [p |-> "BUSINESS_OVERVIEW:",          f |-> "businessOverview"] >>

MinContentLen == 50

MinParagraphLen == 30

MinOverviewLen == 20

BusinessAnalysis(ic, mp, gp, sa, mo, sr, bo, id) ==
    [kind |-> "BusinessAnalysis",
     industryClassification |-> ic, marketPosition |-> mp,
     growthPotential |-> gp, strengthsAndAdvantages |-> sa,
     marketOpportunities |-> mo, strategicRecommendations |-> sr,
     businessOverview |-> bo, analysisId |-> id]

\* an exception leaving a function
Raised(msg) == [kind |-> "raised", error |-> msg]

\* r is an exception rather than a returned value
IsRaised(r) == "error" \in DOMAIN r

EmptyFields == [f \in {TextFields[i] : i \in 1..Len(TextFields)} |-> ""]

\* index of the first branch of the elif chain the trimmed line takes, 0 for none
MatchingPrefix(line) ==
    LET hits == {k \in 1..Len(Prefixes) : StartsWith(line, Prefixes[k].p)}
    IN  IF hits = {} THEN 0 ELSE CHOOSE k \in hits : \A j \in hits : k <= j

\* one iteration of the loop over lines
ScanLine(acc, rawline) ==
    LET line == Strip(rawline)
        k    == MatchingPrefix(line)
    IN  IF k = 0 THEN acc
        ELSE [acc EXCEPT ![Prefixes[k].f] = Strip(Remove(line, Prefixes[k].p))]

RECURSIVE ScanLines(_, _, _)
\* the loop: lines i..Len(lines) applied to acc in order
ScanLines(lines, i, acc) ==
    IF i > Len(lines) THEN acc ELSE ScanLines(lines, i + 1, ScanLine(acc, lines[i]))

\* tier 1: the fields after the loop over content.strip().split('\n')
ExtractLines(text) == ScanLines(Split(Strip(text), "\n"), 1, EmptyFields)

\* Paragraphs keeping a paragraph of exactly the minimum length too
Paragraphs_at_least(text) ==
    LET parts == Split(text, "\n\n")
        trimmed == [i \in 1..Len(parts) |-> Strip(parts[i])]
    IN  SelectSeq(trimmed, LAMBDA p : Len(p) >= MinParagraphLen)

\* [p.strip() for p in content.split('\n\n') if len(p.strip()) > 30]
Paragraphs(text) ==
    LET parts == Split(text, "\n\n")
        trimmed == [i \in 1..Len(parts) |-> Strip(parts[i])]
    IN  SelectSeq(trimmed, LAMBDA p : Len(p) > MinParagraphLen)

\* tier 2: business_overview after the paragraph fallback
OverviewAfterParagraphs(text) ==
    LET ov == Strip(ExtractLines(text).businessOverview)
    IN  IF ov = "" /\ Len(Strip(text)) > MinContentLen
        THEN (IF Len(Paragraphs(text)) > 0 THEN Paragraphs(text)[1] ELSE ov)
        ELSE ov

\* the guard taking an overview of exactly the minimum length as too short
NeedsSynthesis_at_limit(ov) == ov = "" \/ Len(ov) <= MinOverviewLen

\* tier 3 guard: not business_overview or len(business_overview) < 20
NeedsSynthesis(ov) == ov = "" \/ Len(ov) < MinOverviewLen

\* the overview built from the request mapping
SynthesizedOverview(data) ==
    LET company_name == Get(data, "companyName", Get(data, "company", PyStr("Company")))
        years_operation == Get(data, "yearsInOperation",
                               Get(data, "yearsInBusiness", PyStr("Unknown")))
        location == Get(data, "location", PyStr(""))
        industry == Get(data, "industry", PyStr(""))
    IN  PyFormat(company_name) \o " is an established business"
        \o (IF Truthy(industry) THEN " in the " \o PyFormat(industry) \o " sector" ELSE "")
        \o (IF PyNe(years_operation, PyStr("Unknown"))
            THEN " with " \o PyFormat(years_operation) \o " years of operational experience"
            ELSE "")
        \o (IF Strip(location.v) # "" THEN " based in " \o PyFormat(location) ELSE "")
        \o "."

\* x or default, for a text field
OrElse(x, default) == IF x # "" THEN x ELSE default

\* synthesis that writes the canned phrases over the fields already set
Synthesize_overwrites(f, data, id) ==
    LET industry == Get(data, "industry", PyStr(""))
    IN  IF ~IsStr(Get(data, "location", PyStr("")))
        THEN Raised("Exception")
        ELSE BusinessAnalysis(
                IF Truthy(industry) THEN PyFormat(industry) ELSE "Business Services",
                "Established market participant",
                "Moderate growth opportunities identified",
                "Operational experience and market presence",
                "Market expansion and service diversification",
                "Continue operational excellence and explore growth opportunities",
                SynthesizedOverview(data), id)

\* tier 3: the result when synthesis runs
Synthesize(f, data, id) ==
    LET industry == Get(data, "industry", PyStr(""))
    IN  IF ~IsStr(Get(data, "location", PyStr("")))
        THEN Raised("Exception")            \* location.strip() on a non-string
        ELSE BusinessAnalysis(
                OrElse(f.industryClassification,
                       IF Truthy(industry) THEN PyFormat(industry) ELSE "Business Services"),
                OrElse(f.marketPosition, "Established market participant"),
                OrElse(f.growthPotential, "Moderate growth opportunities identified"),
                OrElse(f.strengthsAndAdvantages, "Operational experience and market presence"),
                OrElse(f.marketOpportunities, "Market expansion and service diversification"),
                OrElse(f.strategicRecommendations,
                       "Continue operational excellence and explore growth opportunities"),
                SynthesizedOverview(data), id)

\* the body of the try block
ParseBody(c, data, id) ==
    IF ~IsStr(c) THEN Raised("Exception")   \* content[:200] on a missing text
    ELSE LET f  == ExtractLines(c.v)
             ov == OverviewAfterParagraphs(c.v)
         IN  IF NeedsSynthesis(ov) THEN Synthesize(f, data, id)
             ELSE BusinessAnalysis(f.industryClassification, f.marketPosition,
                                   f.growthPotential, f.strengthsAndAdvantages,
                                   f.marketOpportunities, f.strategicRecommendations,
                                   ov, id)

\* the except branch: the static placeholder result
PlaceholderAnalysis(id) ==
    BusinessAnalysis("Business Services", "Market analysis pending",
                     "Growth assessment in progress", "Competitive analysis pending",
                     "Opportunity identification in progress",
                     "Strategic analysis pending",
                     "Business analysis completed with available data.", id)

\* the parser without its except clause
_parse_analysis_response_uncaught(c, data, id) == ParseBody(c, data, id)

_parse_analysis_response(c, data, id) ==
    LET r == ParseBody(c, data, id)
    IN  IF r.kind = "raised" THEN PlaceholderAnalysis(id) ELSE r

----------------------------------------------------------------------------
(* BusinessAnalysisService._generate_analysis_id *)

LowerLetters == "abcdefghijklmnopqrstuvwxyz"

UpperLetters == "ABCDEFGHIJKLMNOPQRSTUVWXYZ"

AlnumChars ==
    {Ch(LowerLetters, i) : i \in 1..26} \cup {Ch(UpperLetters, i) : i \in 1..26}
    \cup {Ch("0123456789", i) : i \in 1..10}

\* c.isalnum()
IsAlnum(c) == c \in AlnumChars

UpperOf == [c \in {Ch(LowerLetters, i) : i \in 1..26} |->
               Ch(UpperLetters, Find(LowerLetters, c, 1))]

\* c.upper()
UpperChar(c) == IF c \in DOMAIN UpperOf THEN UpperOf[c] ELSE c

\* what one character of company_name contributes to clean_company
CleanChar(c) ==
    IF IsAlnum(c) \/ c \in {" ", "-", "_"}
    THEN (IF c = " " THEN "_" ELSE UpperChar(c)) ELSE ""

RECURSIVE CleanCompany(_, _)
\* the kept characters of company_name[i..], spaces replaced, uppercased
\* (computed by halves)
CleanCompany(name, i) ==
    LET n == Len(name) - i + 1
    IN  IF n <= 0 THEN ""
        ELSE IF n = 1 THEN CleanChar(Ch(name, i))
        ELSE CleanCompany(SubSeq(name, i, i + (n \div 2) - 1), 1)
             \o CleanCompany(name, i + (n \div 2))

MaxIdLen == 60

CleanPrefixLen == 30

\* _generate_analysis_id cutting the name from 60 characters on
_generate_analysis_id_cut_at_limit(data, time) ==
    LET company_name == Get(data, "companyName",
                            Get(data, "company", PyStr("UNKNOWN_COMPANY")))
        timestamp == NatStr(time)
    IN  IF ~IsStr(company_name) THEN Raised("Exception")
        ELSE LET clean_company == CleanCompany(company_name.v, 1)
                 full == clean_company \o "_BA_" \o timestamp
             IN  IF Len(full) >= MaxIdLen
                 THEN PyStr(SubSeq(clean_company, 1, CleanPrefixLen) \o "_BA_" \o timestamp)
                 ELSE PyStr(full)

\* returns the identifier, or Raised when company_name is not iterable
_generate_analysis_id(data, time) ==
    LET company_name == Get(data, "companyName",
                            Get(data, "company", PyStr("UNKNOWN_COMPANY")))
        timestamp == NatStr(time)
    IN  IF ~IsStr(company_name) THEN Raised("Exception")
        ELSE LET clean_company == CleanCompany(company_name.v, 1)
                 full == clean_company \o "_BA_" \o timestamp
             IN  IF Len(full) > MaxIdLen
                 THEN PyStr(SubSeq(clean_company, 1, CleanPrefixLen) \o "_BA_" \o timestamp)
                 ELSE PyStr(full)

----------------------------------------------------------------------------
(* BusinessData.__init__ *)

BusinessData(kwargs) ==
    [company_name |-> Get(kwargs, "companyName", Get(kwargs, "company", PyStr(""))),
     industry |-> Get(kwargs, "industry", PyStr("")),
     business_type |-> Get(kwargs, "businessType",
                           Get(kwargs, "businessStructure", PyStr(""))),
     location |-> Get(kwargs, "location",
                      PyStr(PyFormat(Get(kwargs, "businessCity", PyStr(""))) \o ", "
                            \o PyFormat(Get(kwargs, "businessState", PyStr(""))))),
     years_in_operation |-> Get(kwargs, "yearsInOperation",
                                Get(kwargs, "yearsInBusiness", PyInt(0))),
     employee_count |-> Get(kwargs, "employeeCount", PyInt(0)),
     annual_revenue |-> Get(kwargs, "annualRevenue", PyInt(0)),
     total_assets |-> Get(kwargs, "totalAssets",
                          Get(kwargs, "totalEquipmentCost", PyInt(0))),
     credit_rating |-> Get(kwargs, "creditRating", PyStr("")),
     primary_markets |-> Get(kwargs, "primaryMarkets", PyList(<<>>)),
     competitive_advantages |-> Get(kwargs, "competitiveAdvantages", PyList(<<>>)),
     business_model |-> Get(kwargs, "businessModel", PyStr("")),
     key_products |-> Get(kwargs, "keyProducts",
                          Get(kwargs, "leadEquipments", PyList(<<>>))),
     recent_developments |-> Get(kwargs, "recentDevelopments", PyStr("")),
     additional_info |-> Get(kwargs, "additionalInfo", PyDict(<<>>)),
     legacy_fields |-> [documents |-> Get(kwargs, "documents", PyList(<<>>))]]

----------------------------------------------------------------------------
(* BusinessAnalysisService._create_analysis_prompt *)

RECURSIVE Grouped(_)
\* the digits of n >= 0 with thousands separators
Grouped(n) ==
    IF n < 1000 THEN NatStr(n)
    ELSE LET r == n % 1000
         IN  Grouped(n \div 1000) \o ","
             \o (IF r < 10 THEN "00" ELSE IF r < 100 THEN "0" ELSE "") \o NatStr(r)

\* f"{x:,.2f}" for an integer amount
FormatMoney(n) == (IF n < 0 THEN "-" \o Grouped(0 - n) ELSE Grouped(n)) \o ".00"

\* x can be rendered with the format code ,.2f
IsNumber(x) == x.t \in {"int", "bool"}

\* the items a for loop or join visits: those of a list, the characters of a string
Items(x) == IF x.t = "str" THEN [i \in 1..Len(x.v) |-> PyStr(Ch(x.v, i))] ELSE x.v

\* x can be iterated and every item is a string, so ', '.join accepts it
AllStr(x) == x.t \in {"list", "str"} /\ \A i \in 1..Len(Items(x)) : IsStr(Items(x)[i])

\* ', '.join(x)
JoinList(x) == Join([i \in 1..Len(Items(x)) |-> Items(x)[i].v], ", ")

\* d.get(key, default) for a dict value
DictGet(d, key, default) ==
    LET at == {i \in 1..Len(d.v) : d.v[i][1] = key}
    IN  IF at = {} THEN default ELSE d.v[CHOOSE i \in at : \A j \in at : j <= i][2]

\* the entry of products_list for one product
ProductEntry(product) ==
    IF product.t = "dict"
    THEN DictGet(product, "description", PyStr(PyFormat(product)))
    ELSE PyStr(PyFormat(product))

\* products_list
ProductsList(x) == PyList([i \in 1..Len(Items(x)) |-> ProductEntry(Items(x)[i])])

\* a line appended when its field is truthy
LineIf(x, label) == IF Truthy(x) THEN <<label \o PyFormat(x)>> ELSE <<>>

MoneyLineIf(x, label) ==
    IF Truthy(x)
    THEN <<label \o "$" \o FormatMoney(IF x.t = "bool" THEN 1 ELSE x.v)>> ELSE <<>>

CompanySection(data) ==
    <<"=== COMPANY OVERVIEW ===">>
    \o LineIf(data.company_name, "Company Name: ")
    \o LineIf(data.industry, "Industry: ")
    \o LineIf(data.business_type, "Business Type: ")
    \o (IF Strip(data.location.v) # "" THEN <<"Location: " \o data.location.v>> ELSE <<>>)
    \o LineIf(data.years_in_operation, "Years in Operation: ")
    \o LineIf(data.employee_count, "Employee Count: ")
    \o <<"">>

\* FinancialSection with the header appended unconditionally
FinancialSection_unguarded(data) ==
    <<"=== FINANCIAL PROFILE ===">>
    \o MoneyLineIf(data.annual_revenue, "Annual Revenue: ")
    \o MoneyLineIf(data.total_assets, "Total Assets: ")
    \o LineIf(data.credit_rating, "Credit Rating: ")
    \o <<"">>

FinancialSection(data) ==
    IF Truthy(data.annual_revenue) \/ Truthy(data.total_assets) \/ Truthy(data.credit_rating)
    THEN <<"=== FINANCIAL PROFILE ===">>
         \o MoneyLineIf(data.annual_revenue, "Annual Revenue: ")
         \o MoneyLineIf(data.total_assets, "Total Assets: ")
         \o LineIf(data.credit_rating, "Credit Rating: ")
         \o <<"">>
    ELSE <<>>

MarketSection(data) ==
    IF Truthy(data.primary_markets) \/ Truthy(data.competitive_advantages)
       \/ Truthy(data.business_model)
    THEN <<"=== MARKET INFORMATION ===">>
         \o (IF Truthy(data.primary_markets)
             THEN <<"Primary Markets: " \o JoinList(data.primary_markets)>> ELSE <<>>)
         \o (IF Truthy(data.competitive_advantages)
             THEN <<"Competitive Advantages: " \o JoinList(data.competitive_advantages)>>
             ELSE <<>>)
         \o LineIf(data.business_model, "Business Model: ")
         \o <<"">>
    ELSE <<>>

ProductsSection(data) ==
    IF Truthy(data.key_products) \/ Truthy(data.recent_developments)
    THEN <<"=== PRODUCTS & SERVICES ===">>
         \o (IF Truthy(data.key_products)
             THEN <<"Key Products/Services: "
                    \o JoinList(ProductsList(data.key_products))>>
             ELSE <<>>)
         \o LineIf(data.recent_developments, "Recent Developments: ")
         \o <<"">>
    ELSE <<>>

AdditionalSection(data) ==
    IF Truthy(data.additional_info) \/ Truthy(data.legacy_fields.documents)
    THEN <<"=== ADDITIONAL INFORMATION ===">>
         \o (IF Truthy(data.additional_info)
             THEN [i \in 1..Len(data.additional_info.v) |->
                      data.additional_info.v[i][1] \o ": "
                      \o PyFormat(data.additional_info.v[i][2])]
             ELSE <<>>)
         \o <<"">>
    ELSE <<>>

ClosingBlock ==
    <<"=== STRATEGIC ANALYSIS REQUIRED ===",
      "Provide a comprehensive business intelligence analysis covering:",
      "1. Industry classification and positioning",
      "2. Current market position and competitive landscape",
      "3. Growth potential and expansion opportunities",
      "4. Key business strengths and competitive advantages",
      "5. Market opportunities and emerging trends",
      "6. Strategic recommendations for business development",
      "7. Overall business assessment and outlook",
      "Use ONLY the information provided above.">>

\* the statements of the builder that raise on a value of the wrong type
PromptRaises(data) ==
    \/ ~IsStr(data.location)                                      \* location.strip()
    \/ Truthy(data.annual_revenue) /\ ~IsNumber(data.annual_revenue)
    \/ Truthy(data.total_assets) /\ ~IsNumber(data.total_assets)
    \/ Truthy(data.primary_markets) /\ ~AllStr(data.primary_markets)
    \/ Truthy(data.competitive_advantages) /\ ~AllStr(data.competitive_advantages)
    \/ Truthy(data.key_products) /\ data.key_products.t \notin {"list", "str"}
    \/ Truthy(data.key_products) /\ ~AllStr(ProductsList(data.key_products))
    \/ Truthy(data.additional_info) /\ data.additional_info.t # "dict"

\* the rendered prompt, or Raised when a statement of the builder raises
_create_analysis_prompt(data) ==
    IF PromptRaises(data) THEN Raised("Exception")
    ELSE PyStr(Join(
             <<"ANALYZE THIS BUSINESS FOR COMPREHENSIVE STRATEGIC INTELLIGENCE:\n">>
             \o CompanySection(data) \o FinancialSection(data) \o MarketSection(data)
             \o ProductsSection(data) \o AdditionalSection(data) \o ClosingBlock, "\n"))

----------------------------------------------------------------------------
(* Inputs *)

\* a key that the request mapping does not hold
Absent == [t |-> "absent", v |-> ""]

RecordKeys ==
    {"companyName", "company", "industry", "location", "businessCity",
     "businessState", "yearsInOperation", "yearsInBusiness"}

\* the mapping holding exactly the keys that o gives a value
MkDict(o) == [k \in {x \in DOMAIN o : o[x] # Absent} |-> o[k]]

AcmeRecord ==
    MkDict([companyName |-> PyStr("Acme Trucking"), industry |-> PyStr("Transportation"),
            yearsInOperation |-> PyInt(12), location |-> PyStr("Dallas, TX")])

LegacyRecord ==
    MkDict([company |-> PyStr("Old Co"), businessCity |-> PyStr("Dallas"),
            businessState |-> PyStr("TX"), yearsInBusiness |-> PyInt(5)])

EmptyRecord == MkDict([companyName |-> Absent])

NullLocationRecord ==
    MkDict([companyName |-> PyStr("Acme Trucking"), location |-> PyNone])

NullNameRecord == MkDict([companyName |-> PyNone, industry |-> PyStr("Retail")])

FewRecords == {AcmeRecord, LegacyRecord, EmptyRecord}

RichRecords ==
    { MkDict([companyName |-> a, company |-> b, industry |-> c, location |-> d,
              businessCity |-> e[1], businessState |-> e[2],
              yearsInOperation |-> f, yearsInBusiness |-> g]) :
        a \in {Absent, PyStr("Acme Trucking")},
        b \in {Absent, PyStr("Old Co")},
        c \in {Absent, PyStr(""), PyStr("Transportation"), PyNone},
        d \in {Absent, PyStr("Dallas, TX"), PyStr("  "), PyNone},
        e \in {<<Absent, Absent>>, <<PyStr("Dallas"), PyStr("TX")>>,
               <<PyStr("Dallas"), Absent>>},
        f \in {Absent, PyInt(12), PyInt(0)},
        g \in {Absent, PyInt(5)} }

\* lines and groups of lines a completion text is made of
Blocks ==
    { "",
      "INDUSTRY_CLASSIFICATION: Retail",
      "  INDUSTRY_CLASSIFICATION:Tech  ",
      "MARKET_POSITION: Leader in MARKET_POSITION: data",
      "BUSINESS_OVERVIEW: Small firm.",
      "BUSINESS_OVERVIEW: A regional carrier with steady growth.",
      "business_overview: lower case, then GROWTH_POTENTIAL: High",
      "Thanks.",
      "GROWTH_POTENTIAL: High\nSTRENGTHS_ADVANTAGES: Team\nMARKET_OPPORTUNITIES: Export\nSTRATEGIC_RECOMMENDATIONS: Hire",
      "The firm runs a fleet of ten trucks." }

MaxBlocks == 3

\* every text of at most MaxBlocks blocks, one per line
RichTexts ==
    { Join(q, "\n") : q \in UNION { [1..n -> Blocks] : n \in 0..MaxBlocks } }

FewTexts ==
    { "", "Thanks.", "BUSINESS_OVERVIEW: Small firm.",
      "INDUSTRY_CLASSIFICATION: Retail",
      "BUSINESS_OVERVIEW: A regional carrier with steady growth." }

\* the texts tried with a record: every text for a few records, a few texts
\* (and a missing text) for every record
TextsFor(data) ==
    IF data \in FewRecords THEN {PyStr(x) : x \in RichTexts}
    ELSE {PyStr(x) : x \in FewTexts} \cup {PyNone}

Timestamps == {1732800000}

NoValue == [kind |-> "none"]

----------------------------------------------------------------------------
(* The parser applied to every text and record *)

InitParse ==
    /\ pc = "parse"
    /\ business_data \in FewRecords \cup RichRecords
    /\ now \in Timestamps
    /\ analysis_id = _generate_analysis_id(business_data, now).v
    /\ structured_data = BusinessData(business_data)
    /\ prompt = ""
    /\ completion_calls = 0
    /\ completion_outcome = "none"
    /\ result = NoValue
    /\ use_rag = FALSE /\ hash_seed = 0 /\ rag_response = PyNone
    /\ NoQuery
    /\ first_result = NoValue
    /\ NoEvent
    /\ content \in TextsFor(business_data)

\* ParseResponse that also writes the company name it reports into the record
ParseResponse_renames ==
    /\ pc = "parse"
    /\ result' = _parse_analysis_response(content, business_data, analysis_id)
    /\ business_data' = [k \in DOMAIN business_data \cup {"companyName"} |->
                            IF k = "companyName" THEN PyStr("Unknown Company")
                            ELSE business_data[k]]
    /\ pc' = "done"
    /\ UNCHANGED <<now, analysis_id, structured_data, prompt,
                   content, completion_calls, completion_outcome>>
    /\ UNCHANGED riskVars
    /\ UNCHANGED queryVars
    /\ UNCHANGED first_result
    /\ UNCHANGED handlerVars

\* return self._parse_analysis_response(content, business_data, analysis_id)
ParseResponse ==
    /\ pc = "parse"
    /\ result' = _parse_analysis_response(content, business_data, analysis_id)
    /\ pc' = "done"
    /\ UNCHANGED <<business_data, now, analysis_id, structured_data, prompt,
                   content, completion_calls, completion_outcome>>
    /\ UNCHANGED riskVars
    /\ UNCHANGED first_result
    /\ UNCHANGED handlerVars
    /\ UNCHANGED queryVars

SpecParse == InitParse /\ [][ParseResponse]_vars

-----------------------------------------------------------------------------
(* The parser applied to texts made of paragraphs around the two thresholds *)

\* paragraphs of 17, 18, 30, 31 and 36 characters (trimmed), a prefix line,
\* and overview lines with no value and with values of 11, 20 and 38 characters
Pieces ==
    { "BUSINESS_OVERVIEW: Twenty characters ok", "Seventeen chars..", "Eighteen chars now",
      "Short note on the firm, 30 ch.", "A paragraph of thirty-one chars",
      "  The firm runs a fleet of ten trucks.  ", "MARKET_POSITION: Leader",
      "BUSINESS_OVERVIEW:", "BUSINESS_OVERVIEW: Small firm.",
      "BUSINESS_OVERVIEW: A regional carrier with steady growth." }

MaxParagraphs == 3

\* the pieces joined by blank lines
ParagraphTexts ==
    { Join(q, "\n\n") : q \in UNION { [1..n -> Pieces] : n \in 1..MaxParagraphs } }

InitParagraphs ==
    /\ pc = "parse"
    /\ business_data \in {AcmeRecord, EmptyRecord, NullLocationRecord}
    /\ now \in Timestamps
    /\ analysis_id = _generate_analysis_id(business_data, now).v
    /\ structured_data = BusinessData(business_data)
    /\ prompt = ""
    /\ completion_calls = 0
    /\ completion_outcome = "none"
    /\ result = NoValue
    /\ use_rag = FALSE /\ hash_seed = 0 /\ rag_response = PyNone
    /\ NoQuery
    /\ first_result = NoValue
    /\ NoEvent
    /\ content \in {PyStr(x) : x \in ParagraphTexts}

SpecParagraphs == InitParagraphs /\ [][ParseResponse]_vars

----------------------------------------------------------------------------
(* BusinessAnalysisService.generate_analysis *)

PipelineRecords == FewRecords \cup RichRecords \cup {NullLocationRecord, NullNameRecord}

\* what the completion service does with a request: it fails, or it answers
\* with a message whose content is a text or is missing
CompletionOutcomes ==
    {[ok |-> FALSE, content |-> PyNone]}
    \cup {[ok |-> TRUE, content |-> c] : c \in {PyStr(x) : x \in FewTexts} \cup {PyNone}}

GenerationFailed == Raised("Business analysis generation failed")

InitBA ==
    /\ pc = "start"
    /\ business_data \in PipelineRecords
    /\ now \in Timestamps
    /\ analysis_id = ""
    /\ structured_data = NoValue
    /\ prompt = ""
    /\ content = PyNone
    /\ completion_calls = 0
    /\ completion_outcome = "none"
    /\ result = NoValue
    /\ use_rag = FALSE /\ hash_seed = 0 /\ rag_response = PyNone
    /\ NoQuery
    /\ first_result = NoValue
    /\ NoEvent

\* analysis_id = self._generate_analysis_id(business_data)
GenerateId ==
    /\ pc = "start"
    /\ LET id == _generate_analysis_id(business_data, now)
       IN  IF IsRaised(id)
           THEN result' = id /\ pc' = "done" /\ UNCHANGED analysis_id
           ELSE analysis_id' = id.v /\ pc' = "normalize" /\ UNCHANGED result
    /\ UNCHANGED <<business_data, now, structured_data, prompt, content,
                   completion_calls, completion_outcome>>
    /\ UNCHANGED riskVars
    /\ UNCHANGED first_result
    /\ UNCHANGED handlerVars
    /\ UNCHANGED queryVars

\* structured_data = BusinessData(**business_data)
Normalize ==
    /\ pc = "normalize"
    /\ structured_data' = BusinessData(business_data)
    /\ pc' = "prompt"
    /\ UNCHANGED <<business_data, now, analysis_id, prompt, content, completion_calls,
                   completion_outcome, result>>
    /\ UNCHANGED riskVars
    /\ UNCHANGED first_result
    /\ UNCHANGED handlerVars
    /\ UNCHANGED queryVars

\* prompt = self._create_analysis_prompt(structured_data)
BuildPrompt ==
    /\ pc = "prompt"
    /\ LET p == _create_analysis_prompt(structured_data)
       IN  IF IsRaised(p)
           THEN result' = p /\ pc' = "done" /\ UNCHANGED prompt
           ELSE prompt' = p.v /\ pc' = "complete" /\ UNCHANGED result
    /\ UNCHANGED <<business_data, now, analysis_id, structured_data, content,
                   completion_calls, completion_outcome>>
    /\ UNCHANGED riskVars
    /\ UNCHANGED first_result
    /\ UNCHANGED handlerVars
    /\ UNCHANGED queryVars

\* Complete with the except clause returning a placeholder result
Complete_returns_placeholder ==
    /\ pc = "complete"
    /\ completion_calls' = completion_calls + 1
    /\ \E o \in CompletionOutcomes :
          /\ completion_outcome' = IF o.ok THEN "answered" ELSE "failed"
          /\ IF o.ok /\ IsStr(o.content)
             THEN content' = o.content /\ pc' = "parse" /\ UNCHANGED result
             ELSE /\ result' = PlaceholderAnalysis(analysis_id)
                  /\ pc' = "done" /\ UNCHANGED content
    /\ UNCHANGED <<business_data, now, analysis_id, structured_data, prompt>>
    /\ UNCHANGED riskVars
    /\ UNCHANGED first_result
    /\ UNCHANGED handlerVars
    /\ UNCHANGED queryVars

\* Complete handing an empty text to the parser when the request failed
Complete_parses_failures ==
    /\ pc = "complete"
    /\ completion_calls' = completion_calls + 1
    /\ \E o \in CompletionOutcomes :
          /\ completion_outcome' = IF o.ok THEN "answered" ELSE "failed"
          /\ content' = IF IsStr(o.content) THEN o.content ELSE PyStr("")
          /\ pc' = "parse"
          /\ UNCHANGED result
    /\ UNCHANGED <<business_data, now, analysis_id, structured_data, prompt>>
    /\ UNCHANGED riskVars
    /\ UNCHANGED first_result
    /\ UNCHANGED handlerVars
    /\ UNCHANGED queryVars

\* the try block up to the parser call: the request, response.choices[0]
\* .message.content and len(content); the except clause re-raises
Complete ==
    /\ pc = "complete"
    /\ completion_calls' = completion_calls + 1
    /\ \E o \in CompletionOutcomes :
          /\ completion_outcome' = IF o.ok THEN "answered" ELSE "failed"
          /\ IF o.ok /\ IsStr(o.content)
             THEN content' = o.content /\ pc' = "parse" /\ UNCHANGED result
             ELSE result' = GenerationFailed /\ pc' = "done" /\ UNCHANGED content
    /\ UNCHANGED <<business_data, now, analysis_id, structured_data, prompt>>
    /\ UNCHANGED riskVars
    /\ UNCHANGED first_result
    /\ UNCHANGED handlerVars
    /\ UNCHANGED queryVars

NextBA == GenerateId \/ Normalize \/ BuildPrompt \/ Complete \/ ParseResponse

SpecBA == InitBA /\ [][NextBA]_vars

----------------------------------------------------------------------------
(* The identifier generator applied to names of every length *)

RECURSIVE Rep(_, _)
\* piece * n
Rep(piece, n) ==
    IF n = 0 THEN ""
    ELSE LET half == Rep(piece, n \div 2)
         IN  half \o half \o (IF n % 2 = 1 THEN piece ELSE "")

MaxNameReps == 50

\* company names, each with the cleaned name expected for it
IdCases ==
    { [name |-> Rep("a", n), clean |-> Rep("A", n)] : n \in 0..MaxNameReps }
    \cup { [name |-> Rep("B 7", n), clean |-> Rep("B_7", n)] : n \in 0..MaxNameReps }
    \cup { [name |-> Rep("c!", n), clean |-> Rep("C", n)] : n \in 0..MaxNameReps }
    \cup { [name |-> Rep("-_.", n), clean |-> Rep("-_", n)] : n \in 0..MaxNameReps }
    \cup { [name |-> "Tech Corp!!", clean |-> "TECH_CORP"],
           [name |-> "O'Neil & Sons, Inc.", clean |-> "ONEIL__SONS_INC"] }

IdTimestamps == {1732800000, 999999999}

InitId ==
    /\ pc = "start"
    /\ \/ \E c \in IdCases : business_data = MkDict([companyName |-> PyStr(c.name)])
       \/ \E c \in IdCases : business_data = MkDict([company |-> PyStr(c.name)])
       \/ business_data \in {EmptyRecord, NullNameRecord}
    /\ now \in IdTimestamps
    /\ analysis_id = ""
    /\ structured_data = NoValue
    /\ prompt = ""
    /\ content = PyNone
    /\ completion_calls = 0
    /\ completion_outcome = "none"
    /\ result = NoValue
    /\ use_rag = FALSE /\ hash_seed = 0 /\ rag_response = PyNone
    /\ NoQuery
    /\ first_result = NoValue
    /\ NoEvent

SpecId == InitId /\ [][GenerateId]_vars

----------------------------------------------------------------------------
(* json.loads, for texts without escapes, fractions or exponents *)

\* s[i], or "" past either end
At(s, i) == IF i >= 1 /\ i <= Len(s) THEN SubSeq(s, i, i) ELSE ""

IsDigit(c) == \E d \in 1..10 : Digits[d] = c

DigitVal(c) == (CHOOSE d \in 1..10 : Digits[d] = c) - 1

RECURSIVE ParseNat(_)
\* int(s) for a non-empty run of digits
ParseNat(s) ==
    IF Len(s) = 1 THEN DigitVal(s)
    ELSE ParseNat(SubSeq(s, 1, Len(s) - 1)) * 10 + DigitVal(At(s, Len(s)))

JsonFail == [ok |-> FALSE, v |-> PyNone, next |-> 0]

\* a decoded value and the index after its last character
JsonOk(v, next) == [ok |-> TRUE, v |-> v, next |-> next]

\* a string literal opening at s[i]; a control character inside it is an error
JsonString(s, i) ==
    LET close == Find(s, "\"", i + 1)
        body  == SubSeq(s, i + 1, close - 1)
    IN  IF close = 0 \/ \E k \in 1..Len(body) : At(body, k) \in {"\n", "\t", "\r"}
        THEN JsonFail
        ELSE JsonOk(PyStr(body), close + 1)

\* an integer literal at s[i]; a leading zero ends the literal
JsonNumber(s, i) ==
    LET d0   == IF At(s, i) = "-" THEN i + 1 ELSE i
        stop == Least({k \in d0..(Len(s) + 1) : ~IsDigit(At(s, k))})
        end  == IF At(s, d0) = "0" THEN d0 + 1 ELSE stop
        n    == ParseNat(SubSeq(s, d0, end - 1))
    IN  IF ~IsDigit(At(s, d0)) THEN JsonFail
        ELSE JsonOk(PyInt(IF d0 > i THEN 0 - n ELSE n), end)

\* pairs[key] = value on an insertion-ordered dict
SetPair(pairs, key, value) ==
    LET at == {i \in 1..Len(pairs) : pairs[i][1] = key}
    IN  IF at = {} THEN Append(pairs, <<key, value>>)
        ELSE [pairs EXCEPT ![CHOOSE i \in at : TRUE] = <<key, value>>]

RECURSIVE JsonValue(_, _)
RECURSIVE JsonMembers(_, _, _, _)
RECURSIVE JsonItems(_, _, _, _)

\* the members of an object from s[i] on; first: no member has been read yet
JsonMembers(s, i, acc, first) ==
    LET j == FirstNonSpace(s, i)
    IN  IF At(s, j) = "}" /\ first THEN JsonOk(PyDict(acc), j + 1)
        ELSE IF At(s, j) # "\"" THEN JsonFail
        ELSE
          LET key   == JsonString(s, j)
              colon == FirstNonSpace(s, key.next)
          IN  IF ~key.ok \/ At(s, colon) # ":" THEN JsonFail
              ELSE
                LET val  == JsonValue(s, colon + 1)
                    e    == FirstNonSpace(s, val.next)
                    acc2 == SetPair(acc, key.v.v, val.v)
                IN  IF ~val.ok THEN JsonFail
                    ELSE IF At(s, e) = "," THEN JsonMembers(s, e + 1, acc2, FALSE)
                    ELSE IF At(s, e) = "}" THEN JsonOk(PyDict(acc2), e + 1)
                    ELSE JsonFail

\* the items of an array from s[i] on
JsonItems(s, i, acc, first) ==
    LET j == FirstNonSpace(s, i)
    IN  IF At(s, j) = "]" /\ first THEN JsonOk(PyList(acc), j + 1)
        ELSE
          LET val  == JsonValue(s, j)
              e    == FirstNonSpace(s, val.next)
              acc2 == Append(acc, val.v)
          IN  IF ~val.ok THEN JsonFail
              ELSE IF At(s, e) = "," THEN JsonItems(s, e + 1, acc2, FALSE)
              ELSE IF At(s, e) = "]" THEN JsonOk(PyList(acc2), e + 1)
              ELSE JsonFail

\* the value that starts at the first non-space character from s[i0] on
JsonValue(s, i0) ==
    LET i == FirstNonSpace(s, i0)
        c == At(s, i)
    IN  CASE c = "{" -> JsonMembers(s, i + 1, <<>>, TRUE)
          [] c = "[" -> JsonItems(s, i + 1, <<>>, TRUE)
          [] c = "\"" -> JsonString(s, i)
          [] c = "-" \/ IsDigit(c) -> JsonNumber(s, i)
          [] c = "n" /\ StartsWith(SubSeq(s, i, Len(s)), "null")
               -> JsonOk(PyNone, i + 4)
          [] c = "t" /\ StartsWith(SubSeq(s, i, Len(s)), "true")
               -> JsonOk(PyBool(TRUE), i + 4)
          [] c = "f" /\ StartsWith(SubSeq(s, i, Len(s)), "false")
               -> JsonOk(PyBool(FALSE), i + 5)
          [] OTHER -> JsonFail

\* json.loads(s): the decoded value, or JSONDecodeError when s is not one JSON
\* value with nothing but spaces around it
json_loads(s) ==
    LET r == JsonValue(s, 1)
    IN  IF r.ok /\ FirstNonSpace(s, r.next) > Len(s) THEN r.v ELSE Raised("Exception")

----------------------------------------------------------------------------
(* RiskAssessmentService *)

\* BusinessRiskData.from_dict(data)
from_dict(data) ==
    LET location == Get(data, "location", PyStr(""))
        city     == Get(data, "businessCity", PyStr(""))
        state    == Get(data, "businessState", PyStr(""))
    IN  [companyName       |-> Get(data, "companyName", Get(data, "company", PyStr(""))),
         industry          |-> Get(data, "industry", PyStr("Business Services")),
         location          |-> IF Truthy(location) THEN location
                               ELSE IF Truthy(city) /\ Truthy(state)
                                    THEN PyStr(PyFormat(city) \o ", " \o PyFormat(state))
                               ELSE IF Truthy(city) THEN city
                               ELSE location,
         yearsInOperation  |-> Get(data, "yearsInOperation",
                                   Get(data, "yearsInBusiness", PyInt(0))),
         businessStructure |-> Get(data, "businessStructure", PyStr("Unknown")),
         employeeCount     |-> Get(data, "employeeCount", PyInt(0)),
         annualRevenue     |-> Get(data, "annualRevenue",
                                   Get(data, "totalEquipmentCost", PyInt(0))),
         creditRating      |-> Get(data, "creditRating", PyStr("Not Available")),
         keyPersonnel      |-> Get(data, "keyPersonnel", PyList(<<>>)),
         mainProducts      |-> Get(data, "mainProducts",
                                   Get(data, "leadEquipments", PyList(<<>>))),
         marketPosition    |-> Get(data, "marketPosition", PyStr("Established")),
         businessId        |-> Get(data, "businessId", PyStr(""))]

RiskFields ==
    {"overallRiskLevel", "riskScore", "financialRisk", "operationalRisk", "marketRisk",
     "complianceRisk", "riskFactors", "mitigationStrategies", "riskSummary"}

RiskAssessmentResult(lvl, score, fin, op, mkt, comp, fac, mit, sum, id) ==
    [kind |-> "RiskAssessmentResult", overallRiskLevel |-> lvl, riskScore |-> score,
     financialRisk |-> fin, operationalRisk |-> op, marketRisk |-> mkt,
     complianceRisk |-> comp, riskFactors |-> fac, mitigationStrategies |-> mit,
     riskSummary |-> sum, assessmentId |-> id]

HashSeeds == {1, 2}

\* hash(x) raises TypeError for a list and for a dict
Unhashable(x) == x.t \in {"list", "dict"}

\* hash(x) of a string or None in a process whose hash seed is seed: some
\* integer, negative or not, fixed for the process; hash("") is 0
PyHash(seed, x) ==
    IF x.t = "str" /\ x.v = "" THEN 0
    ELSE ((Len(PyFormat(x)) * 7 + seed * 13) % 41) - 20

\* self._create_fallback_assessment(company)
_create_fallback_assessment(company, seed) ==
    IF Unhashable(company) THEN Raised("TypeError") ELSE
    RiskAssessmentResult(
        PyStr("Medium"),
        PyStr("Risk assessment for " \o PyFormat(company) \o " requires manual review"),
        PyStr("Financial risk analysis requires additional data"),
        PyStr("Operational risk assessment pending comprehensive review"),
        PyStr("Market risk evaluation requires industry analysis"),
        PyStr("Compliance risk assessment requires regulatory review"),
        PyStr("Risk factor identification requires detailed manual analysis"),
        PyStr("Risk mitigation strategies require comprehensive assessment"),
        PyStr("Manual risk assessment and due diligence required for complete evaluation"),
        PyStr("RA_" \o IntStr(PyHash(seed, company)) \o "_FALLBACK"))

\* f"RA_{hash(data.companyName)}_{data.businessId}"
AssessmentId(data, seed) ==
    PyStr("RA_" \o IntStr(PyHash(seed, data.companyName)) \o "_" \o PyFormat(data.businessId))

\* self._parse_traditional_risk_response(response_text, data)
_parse_traditional_risk_response(data, seed) ==
    IF Unhashable(data.companyName) THEN Raised("TypeError") ELSE
    RiskAssessmentResult(
        PyStr("Medium"),
        PyStr("Risk score assessment based on available data"),
        PyStr("Financial risk analysis completed"),
        PyStr("Operational risk assessment based on business profile"),
        PyStr("Market risk evaluation based on industry position"),
        PyStr("Compliance risk assessment completed"),
        PyStr("Standard business risk factors identified"),
        PyStr("Risk mitigation strategies recommended"),
        PyStr("Comprehensive risk assessment completed with available data"),
        AssessmentId(data, seed))

\* a value that ', '.join([str(p) for p in x]) if x else ... cannot render
NotListable(x) == Truthy(x) /\ x.t \notin {"list", "dict", "str"}

\* formatting the risk query or the risk prompt raises: the revenue is not a
\* number, or the personnel or the products are truthy and cannot be iterated
RiskPromptRaises(data) ==
    \/ ~IsNumber(data.annualRevenue)
    \/ NotListable(data.keyPersonnel)
    \/ NotListable(data.mainProducts)

\* the three-character Markdown code fence, written with a character that a
\* string constant can hold
Fence == "~~~"

FenceJson == Fence \o "json"

\* clean_json cut at the first fence line after the opening one
StripFence_first_fence(response_content) ==
    IF StartsWith(response_content, FenceJson)
    THEN LET lines == Split(response_content, "\n")
             ends  == {i \in 1..(Len(lines) - 1) : Strip(lines[i + 1]) = Fence}
             json_end == IF ends = {} THEN Len(lines)
                         ELSE CHOOSE i \in ends : \A j \in ends : i <= j
         IN  Join(SubSeq(lines, 2, json_end), "\n")
    ELSE response_content

\* clean_json: the lines between the opening fence and the last fence line
StripFence(response_content) ==
    IF StartsWith(response_content, FenceJson)
    THEN LET lines == Split(response_content, "\n")
             ends  == {i \in 1..(Len(lines) - 1) : Strip(lines[i + 1]) = Fence}
             json_end == IF ends = {} THEN Len(lines)
                         ELSE CHOOSE i \in ends : \A j \in ends : j <= i
         IN  Join(SubSeq(lines, 2, json_end), "\n")
    ELSE response_content

\* d.get(key) or default: the default also replaces a falsy value
DictGetOr(d, key, default) ==
    IF Truthy(DictGet(d, key, default)) THEN DictGet(d, key, default) ELSE default

\* ResultFromJson reading each field with get(...) or default
ResultFromJson_or_default(parsed_data, data, seed) ==
    IF Unhashable(data.companyName) THEN Raised("TypeError") ELSE
    RiskAssessmentResult(
        DictGetOr(parsed_data, "overallRiskLevel", PyStr("Medium")),
        DictGetOr(parsed_data, "riskScore", PyStr("Risk score calculation in progress")),
        DictGetOr(parsed_data, "financialRisk", PyStr("Financial risk assessment pending")),
        DictGetOr(parsed_data, "operationalRisk", PyStr("Operational risk analysis required")),
        DictGetOr(parsed_data, "marketRisk", PyStr("Market risk evaluation in progress")),
        DictGetOr(parsed_data, "complianceRisk", PyStr("Compliance risk assessment pending")),
        DictGetOr(parsed_data, "riskFactors", PyStr("Risk factor identification in progress")),
        DictGetOr(parsed_data, "mitigationStrategies",
                  PyStr("Risk mitigation strategies pending")),
        DictGetOr(parsed_data, "riskSummary", PyStr("Risk assessment summary in progress")),
        AssessmentId(data, seed))

\* RiskAssessmentResult(overallRiskLevel=parsed_data.get(...), ...)
ResultFromJson(parsed_data, data, seed) ==
    IF Unhashable(data.companyName) THEN Raised("TypeError") ELSE
    RiskAssessmentResult(
        DictGet(parsed_data, "overallRiskLevel", PyStr("Medium")),
        DictGet(parsed_data, "riskScore", PyStr("Risk score calculation in progress")),
        DictGet(parsed_data, "financialRisk", PyStr("Financial risk assessment pending")),
        DictGet(parsed_data, "operationalRisk", PyStr("Operational risk analysis required")),
        DictGet(parsed_data, "marketRisk", PyStr("Market risk evaluation in progress")),
        DictGet(parsed_data, "complianceRisk", PyStr("Compliance risk assessment pending")),
        DictGet(parsed_data, "riskFactors", PyStr("Risk factor identification in progress")),
        DictGet(parsed_data, "mitigationStrategies",
                PyStr("Risk mitigation strategies pending")),
        DictGet(parsed_data, "riskSummary", PyStr("Risk assessment summary in progress")),
        AssessmentId(data, seed))

\* ParseJsonReply with the except clause left out: the error escapes
ParseJsonReply_uncaught(reply, data, seed) ==
    IF ~IsStr(reply) THEN Raised("Exception")
    ELSE LET parsed_data == json_loads(StripFence(Strip(reply.v)))
         IN  IF IsRaised(parsed_data) \/ parsed_data.t # "dict"
             THEN Raised("Exception")
             ELSE ResultFromJson(parsed_data, data, seed)

\* _parse_rag_risk_response from the second completion's content on: strip,
\* remove the fence, decode, read the fields; any exception gives the
\* fallback, and an exception of the fallback itself leaves the function
ParseJsonReply(reply, data, seed) ==
    IF ~IsStr(reply) THEN _create_fallback_assessment(data.companyName, seed)
    ELSE LET parsed_data == json_loads(StripFence(Strip(reply.v)))
         IN  IF IsRaised(parsed_data) \/ parsed_data.t # "dict"
             THEN _create_fallback_assessment(data.companyName, seed)
             ELSE IF IsRaised(ResultFromJson(parsed_data, data, seed))
             THEN _create_fallback_assessment(data.companyName, seed)
             ELSE ResultFromJson(parsed_data, data, seed)

\* business_data.get('companyName', business_data.get('company', 'Unknown'))
RequestCompany(data) == Get(data, "companyName", Get(data, "company", PyStr("Unknown")))

\* the request mappings given to assess_risk
RiskRecords ==
    { MkDict([companyName |-> a, company |-> b, annualRevenue |-> c, keyPersonnel |-> d,
              businessId |-> e, location |-> f[1], businessCity |-> f[2],
              businessState |-> f[3]]) :
        a \in {Absent, PyStr("Acme Trucking"), PyStr(""), PyNone, PyList(<<PyStr("Acme")>>)},
        b \in {Absent, PyStr("Old Co")},
        c \in {Absent, PyInt(250000), PyNone},
        d \in {Absent, PyInt(3)},
        e \in {Absent, PyStr("B7")},
        f \in {<<Absent, Absent, Absent>>, <<Absent, PyStr("Dallas"), PyStr("TX")>>} }

\* what query_assistant returns: None, or the text of the assistant's message
RagAnswers == {PyNone, PyStr(""), PyStr("  \n"), PyStr("Risk is moderate.")}

\* the field names parsing_prompt asks the completion to return
RequestedFields ==
    <<"riskLevel", "riskScore", "financialStability", "creditProfile", "businessLegitimacy",
      "riskFactors", "mitigatingFactors", "recommendations", "verificationNotes">>

\* a response that follows parsing_prompt exactly: one object with these fields
InstructedReply ==
    "{\"riskLevel\": \"Low - stable\", \"riskScore\": \"31 of 100\", \"financialStability\": \"Sound\", \"creditProfile\": \"Clean\", \"businessLegitimacy\": \"Verified\", \"riskFactors\": \"Fuel prices\", \"mitigatingFactors\": \"Long contracts\", \"recommendations\": \"Hedge fuel\", \"verificationNotes\": \"Check filings\"}"

\* contents of the second completion's message
JsonReplies ==
    { InstructedReply } \cup
    { "{\"overallRiskLevel\": \"High\", \"riskScore\": \"72 of 100\"}",
      "{\"overallRiskLevel\": \"High\", \"riskScore\": \"72\", \"financialRisk\": \"a\", \"operationalRisk\": \"b\", \"marketRisk\": \"c\", \"complianceRisk\": \"d\", \"riskFactors\": \"e\", \"mitigationStrategies\": \"f\", \"riskSummary\": \"g\"}",
      "{}",
      "  {\"riskLevel\": \"Low\", \"financialStability\": \"Sound\"}\n",
      "{\"riskScore\": \"\"}",
      "{\"riskScore\": 72, \"riskFactors\": null, \"riskSummary\": [\"a\", true]}",
      "{\"riskScore\": \"a\", \"riskScore\": \"b\"}",
      "{\"marketRisk\": {\"level\": \"Low\"}, \"overallRiskLevel\": false}",
      "~~~json\n{\"overallRiskLevel\": \"Low\"}\n~~~",
      "~~~json\n{\"overallRiskLevel\": \"Low\"}",
      "~~~json\n{\"overallRiskLevel\": \"Low\"}\n ~~~ \nHope it helps\n~~~",
      "~~~\n{\"overallRiskLevel\": \"Low\"}\n~~~",
      "~~~json\n{\"overallRiskLevel\": \"Low\"}\n~~~\nHope it helps" }

\* contents that are not one JSON value
UndecodableReplies ==
    { "",
      "{\"overallRiskLevel\": \"High\"",
      "{\"overallRiskLevel\": \"High\", \"riskScore\": \"72 of",
      "{\"overallRiskLevel\": \"High\",}",
      "{\"overallRiskLevel\": \"High\"} Done.",
      "Here it is: {\"overallRiskLevel\": \"High\"}",
      "{overallRiskLevel: \"High\"}",
      "~~~json\n{\"overallRiskLevel\": \"High\"\n~~~",
      "~~~json {\"overallRiskLevel\": \"High\"}\n~~~",
      "Here it is:\n~~~json\n{\"overallRiskLevel\": \"High\"}\n~~~" }

\* contents that are a JSON value other than an object
NonObjectReplies ==
    { "[\"High\"]", "[{\"overallRiskLevel\": \"High\"}]", "\"High\"", "null", "42", "-7",
      "true", "~~~json\n[]\n~~~" }

ReformatOutcomes ==
    {[ok |-> FALSE, content |-> PyNone]}
    \cup {[ok |-> TRUE, content |-> c] :
            c \in {PyStr(x) : x \in JsonReplies \cup UndecodableReplies \cup NonObjectReplies}
                  \cup {PyNone}}

InitRisk ==
    /\ pc = "start"
    /\ business_data \in RiskRecords
    /\ use_rag \in BOOLEAN
    /\ hash_seed \in HashSeeds
    /\ now \in Timestamps
    /\ analysis_id = ""
    /\ structured_data = NoValue
    /\ prompt = ""
    /\ content = PyNone
    /\ rag_response = PyNone
    /\ completion_calls = 0
    /\ completion_outcome = "none"
    /\ result = NoValue
    /\ NoQuery
    /\ first_result = NoValue
    /\ NoEvent

\* assess_risk up to the choice of the path; a query that cannot be formatted
\* sends _assess_with_rag to _assess_traditional
AssessRisk ==
    /\ pc = "start"
    /\ structured_data' = from_dict(business_data)
    /\ pc' = IF use_rag /\ ~RiskPromptRaises(structured_data')
             THEN "rag_query" ELSE "traditional"
    /\ UNCHANGED <<business_data, content, completion_calls, completion_outcome, result,
                   use_rag, hash_seed, rag_response>>
    /\ UNCHANGED analysisVars
    /\ UNCHANGED first_result
    /\ UNCHANGED handlerVars
    /\ UNCHANGED queryVars

\* RAGManager.query_assistant: timeout = 60 and time.sleep(2)
PollTimeout == 60
PollInterval == 2

\* the statuses the polling loop waits through, and the ones that end it
PendingStatuses == {"queued", "in_progress"}
FinalStatuses == {"completed", "failed", "requires_action"}

\* seconds a runs.retrieve call can take on top of the sleep
Latencies == {0, 1}

\* one message of a thread: its role and the text values of its content
Message(role, texts) == [role |-> role, content |-> texts]

UserMessage == Message("user", <<"Assess the risk of Acme Trucking">>)

\* messages.list(thread_id=...): it raises, or gives the thread's messages,
\* newest first
ThreadListings ==
    {[state |-> "raised", data |-> <<>>]}
    \cup {[state |-> "listed", data |-> d] :
            d \in {<<UserMessage>>,
                   <<Message("assistant", <<>>), UserMessage>>,
                   <<Message("assistant", <<"Risk is moderate.">>),
                     Message("assistant", <<"Earlier draft.">>), UserMessage>>}
                  \cup {<<Message("assistant", <<a.v>>), UserMessage>> :
                          a \in RagAnswers \ {PyNone}}}

\* assistant_messages[0].content[0].text.value, None when there is no
\* assistant message or an exception was raised on the way
FirstAssistantText(listing) ==
    LET assistant_messages == SelectSeq(listing.data, LAMBDA msg : msg.role = "assistant")
    IN  IF listing.state = "raised" \/ assistant_messages = <<>> THEN PyNone
        ELSE IF assistant_messages[1].content = <<>> THEN PyNone
        ELSE PyStr(assistant_messages[1].content[1])

\* query_assistant returns r: its locals are gone, the caller holds r
QueryReturn(r) ==
    /\ rag_response' = r
    /\ pc' = "rag_parse"
    /\ run_status' = "none"
    /\ elapsed' = 0
    /\ retrievals' = 0

\* query_assistant up to the polling loop: the thread, the message and the one
\* run; a missing assistant id or a failing call returns None with no run
CreateRun ==
    /\ pc = "rag_query"
    /\ \/ QueryReturn(PyNone) /\ UNCHANGED runs_created
       \/ /\ runs_created' = runs_created + 1
          /\ run_status' \in PendingStatuses \cup FinalStatuses
          /\ elapsed' = 0
          /\ pc' = "rag_poll"
          /\ UNCHANGED <<rag_response, retrievals>>
    /\ UNCHANGED messages
    /\ UNCHANGED <<business_data, structured_data, content, completion_calls,
                   completion_outcome, result, use_rag, hash_seed>>
    /\ UNCHANGED analysisVars
    /\ UNCHANGED first_result
    /\ UNCHANGED handlerVars

\* Poll with the timeout test made against twice the timeout
Poll_late_timeout ==
    /\ pc = "rag_poll"
    /\ run_status \in PendingStatuses
    /\ IF elapsed > PollTimeout * 2
       THEN QueryReturn(PyNone)
       ELSE \E lat \in Latencies :
               \/ /\ retrievals' = retrievals + 1
                  /\ elapsed' = elapsed + PollInterval + lat
                  /\ run_status' \in PendingStatuses \cup FinalStatuses
                  /\ UNCHANGED <<pc, rag_response>>
               \/ QueryReturn(PyNone)
    /\ UNCHANGED <<runs_created, messages>>
    /\ UNCHANGED <<business_data, structured_data, content, completion_calls,
                   completion_outcome, result, use_rag, hash_seed>>
    /\ UNCHANGED analysisVars
    /\ UNCHANGED first_result
    /\ UNCHANGED handlerVars

\* one iteration of the polling loop: the timeout test, the sleep and
\* runs.retrieve, which gives the next status or raises (then None is returned)
Poll ==
    /\ pc = "rag_poll"
    /\ run_status \in PendingStatuses
    /\ IF elapsed > PollTimeout
       THEN QueryReturn(PyNone)
       ELSE \E lat \in Latencies :
               \/ /\ retrievals' = retrievals + 1
                  /\ elapsed' = elapsed + PollInterval + lat
                  /\ run_status' \in PendingStatuses \cup FinalStatuses
                  /\ UNCHANGED <<pc, rag_response>>
               \/ QueryReturn(PyNone)
    /\ UNCHANGED <<runs_created, messages>>
    /\ UNCHANGED <<business_data, structured_data, content, completion_calls,
                   completion_outcome, result, use_rag, hash_seed>>
    /\ UNCHANGED analysisVars
    /\ UNCHANGED first_result
    /\ UNCHANGED handlerVars

\* FetchMessages reading the thread whatever status ended the run
FetchMessages_any_status ==
    /\ pc = "rag_poll"
    /\ run_status \in FinalStatuses
    /\ \E listing \in ThreadListings :
          /\ messages' = listing
          /\ QueryReturn(FirstAssistantText(listing))
    /\ UNCHANGED runs_created
    /\ UNCHANGED <<business_data, structured_data, content, completion_calls,
                   completion_outcome, result, use_rag, hash_seed>>
    /\ UNCHANGED analysisVars
    /\ UNCHANGED first_result
    /\ UNCHANGED handlerVars

\* after the loop: a completed run gives the text of the first assistant
\* message, or None when there is none or when messages.list or the reading
\* of the message raises; any other status gives None
FetchMessages ==
    /\ pc = "rag_poll"
    /\ run_status \in FinalStatuses
    /\ IF run_status = "completed"
       THEN \E listing \in ThreadListings :
               /\ messages' = listing
               /\ QueryReturn(FirstAssistantText(listing))
       ELSE QueryReturn(PyNone) /\ UNCHANGED messages
    /\ UNCHANGED runs_created
    /\ UNCHANGED <<business_data, structured_data, content, completion_calls,
                   completion_outcome, result, use_rag, hash_seed>>
    /\ UNCHANGED analysisVars
    /\ UNCHANGED first_result
    /\ UNCHANGED handlerVars

\* rag_response = self.rag_manager.query_assistant(detailed_query)
QueryAssistant == CreateRun \/ Poll \/ FetchMessages

\* the empty-response check of _parse_rag_risk_response; an exception of the
\* fallback reaches the except clause of _assess_with_rag, which calls
\* _assess_traditional
CheckRagResponse ==
    /\ pc = "rag_parse"
    /\ IF ~Truthy(rag_response) \/ Strip(rag_response.v) = ""
       THEN LET r == _create_fallback_assessment(structured_data.companyName, hash_seed)
            IN  IF IsRaised(r)
                THEN pc' = "traditional" /\ UNCHANGED result
                ELSE result' = r /\ pc' = "done"
       ELSE pc' = "reformat" /\ UNCHANGED result
    /\ UNCHANGED <<business_data, structured_data, content, completion_calls,
                   completion_outcome, use_rag, hash_seed, rag_response>>
    /\ UNCHANGED analysisVars
    /\ UNCHANGED first_result
    /\ UNCHANGED handlerVars
    /\ UNCHANGED queryVars

\* Reformat with no except clause in _parse_rag_risk_response
Reformat_uncaught ==
    /\ pc = "reformat"
    /\ completion_calls' = completion_calls + 1
    /\ \E o \in ReformatOutcomes :
          /\ completion_outcome' = IF o.ok THEN "answered" ELSE "failed"
          /\ content' = o.content
          /\ result' = IF o.ok
                       THEN ParseJsonReply_uncaught(o.content, structured_data, hash_seed)
                       ELSE Raised("Exception")
    /\ pc' = "done"
    /\ UNCHANGED <<business_data, structured_data, use_rag, hash_seed, rag_response>>
    /\ UNCHANGED analysisVars
    /\ UNCHANGED first_result
    /\ UNCHANGED handlerVars
    /\ UNCHANGED queryVars

\* the second completion of _parse_rag_risk_response and what follows it; an
\* exception that leaves _parse_rag_risk_response reaches the except clause of
\* _assess_with_rag, which calls _assess_traditional
Reformat ==
    /\ pc = "reformat"
    /\ completion_calls' = completion_calls + 1
    /\ \E o \in ReformatOutcomes :
          /\ completion_outcome' = IF o.ok THEN "answered" ELSE "failed"
          /\ content' = o.content
          /\ LET r == IF o.ok
                      THEN ParseJsonReply(o.content, structured_data, hash_seed)
                      ELSE _create_fallback_assessment(structured_data.companyName,
                                                       hash_seed)
             IN  IF IsRaised(r)
                 THEN pc' = "traditional" /\ UNCHANGED result
                 ELSE result' = r /\ pc' = "done"
    /\ UNCHANGED <<business_data, structured_data, use_rag, hash_seed, rag_response>>
    /\ UNCHANGED analysisVars
    /\ UNCHANGED first_result
    /\ UNCHANGED handlerVars
    /\ UNCHANGED queryVars

\* Traditional with assess_risk letting the exception through
Traditional_propagates ==
    /\ pc = "traditional"
    /\ IF RiskPromptRaises(structured_data)
       THEN /\ result' = Raised("Exception")
            /\ UNCHANGED <<content, completion_calls, completion_outcome>>
       ELSE /\ completion_calls' = completion_calls + 1
            /\ \E o \in CompletionOutcomes :
                  /\ completion_outcome' = IF o.ok THEN "answered" ELSE "failed"
                  /\ content' = o.content
                  /\ result' = IF o.ok
                               THEN _parse_traditional_risk_response(structured_data,
                                                                     hash_seed)
                               ELSE Raised("Exception")
    /\ pc' = "done"
    /\ UNCHANGED <<business_data, structured_data, use_rag, hash_seed, rag_response>>
    /\ UNCHANGED analysisVars
    /\ UNCHANGED first_result
    /\ UNCHANGED handlerVars
    /\ UNCHANGED queryVars

\* Traditional with the summary taken from the completion text
Traditional_reads_text ==
    /\ pc = "traditional"
    /\ IF RiskPromptRaises(structured_data)
       THEN /\ result' = _create_fallback_assessment(RequestCompany(business_data),
                                                     hash_seed)
            /\ UNCHANGED <<content, completion_calls, completion_outcome>>
       ELSE /\ completion_calls' = completion_calls + 1
            /\ \E o \in CompletionOutcomes :
                  /\ completion_outcome' = IF o.ok THEN "answered" ELSE "failed"
                  /\ content' = o.content
                  /\ LET parsed == _parse_traditional_risk_response(structured_data,
                                                                     hash_seed)
                         r == IF ~o.ok THEN Raised("Exception")
                              ELSE IF IsRaised(parsed) \/ ~IsStr(o.content) THEN parsed
                              ELSE [parsed EXCEPT !.riskSummary = o.content]
                     IN  result' = IF IsRaised(r)
                                   THEN _create_fallback_assessment(
                                            RequestCompany(business_data), hash_seed)
                                   ELSE r
    /\ pc' = "done"
    /\ UNCHANGED <<business_data, structured_data, use_rag, hash_seed, rag_response>>
    /\ UNCHANGED analysisVars
    /\ UNCHANGED first_result
    /\ UNCHANGED handlerVars
    /\ UNCHANGED queryVars

\* _assess_traditional: the prompt, the completion and the canned result; its
\* except clause reads data.company, which BusinessRiskData does not have, so
\* the AttributeError reaches the except clause of assess_risk, which builds
\* the fallback for the company named in the request mapping; an exception of
\* that fallback leaves assess_risk
Traditional ==
    /\ pc = "traditional"
    /\ IF RiskPromptRaises(structured_data)
       THEN /\ result' = _create_fallback_assessment(RequestCompany(business_data),
                                                     hash_seed)
            /\ UNCHANGED <<content, completion_calls, completion_outcome>>
       ELSE /\ completion_calls' = completion_calls + 1
            /\ \E o \in CompletionOutcomes :
                  /\ completion_outcome' = IF o.ok THEN "answered" ELSE "failed"
                  /\ content' = o.content
                  /\ LET r == IF o.ok
                              THEN _parse_traditional_risk_response(structured_data,
                                                                    hash_seed)
                              ELSE Raised("Exception")
                     IN  result' = IF IsRaised(r)
                                   THEN _create_fallback_assessment(
                                            RequestCompany(business_data), hash_seed)
                                   ELSE r
    /\ pc' = "done"
    /\ UNCHANGED <<business_data, structured_data, use_rag, hash_seed, rag_response>>
    /\ UNCHANGED analysisVars
    /\ UNCHANGED first_result
    /\ UNCHANGED handlerVars
    /\ UNCHANGED queryVars

NextRisk == AssessRisk \/ QueryAssistant \/ CheckRagResponse \/ Reformat \/ Traditional

SpecRisk == InitRisk /\ [][NextRisk]_vars

-----------------------------------------------------------------------------
(* Each parser called a second time with the arguments of its first call *)

RagPath == use_rag /\ Truthy(rag_response) /\ Strip(rag_response.v) # ""

\* the parser whose call the request ended with, "none" when no parser ran
LastParser ==
    IF analysis_id # "" THEN "_parse_analysis_response"
    ELSE IF completion_outcome # "answered" THEN "none"
    ELSE IF RagPath /\ completion_calls = 1 THEN "_parse_rag_risk_response"
    ELSE "_parse_traditional_risk_response"

InitReparse ==
    /\ now \in Timestamps
    /\ prompt = ""
    /\ completion_calls = 0
    /\ completion_outcome = "none"
    /\ result = NoValue
    /\ first_result = NoValue
    /\ NoEvent
    /\ run_status = "none" /\ elapsed = 0 /\ retrievals = 0
    /\ messages = NotListed
    /\ \/ /\ pc = "parse"
          /\ business_data \in RichRecords
          /\ analysis_id = _generate_analysis_id(business_data, now).v
          /\ structured_data = BusinessData(business_data)
          /\ content \in TextsFor(business_data)
          /\ use_rag = FALSE /\ hash_seed = 0 /\ rag_response = PyNone
          /\ runs_created = 0
       \/ /\ business_data \in RiskRecords
          /\ analysis_id = ""
          /\ structured_data = from_dict(business_data)
          /\ content = PyNone
          /\ hash_seed \in HashSeeds
          /\ \/ /\ pc = "traditional"
                /\ use_rag = FALSE /\ rag_response = PyNone /\ runs_created = 0
             \/ /\ pc = "reformat"
                /\ ~RiskPromptRaises(structured_data)
                /\ use_rag = TRUE /\ rag_response = PyStr("Risk is moderate.")
                /\ runs_created = 1

\* the same parser called again with the same text, record and identifier
Reparse ==
    /\ pc = "done"
    /\ LastParser # "none"
    /\ first_result' = result
    /\ result' =
          IF LastParser = "_parse_analysis_response"
          THEN _parse_analysis_response(content, business_data, analysis_id)
          ELSE IF LastParser = "_parse_rag_risk_response"
          THEN ParseJsonReply(content, structured_data, hash_seed)
          ELSE _parse_traditional_risk_response(structured_data, hash_seed)
    /\ pc' = "again"
    /\ UNCHANGED handlerVars
    /\ UNCHANGED <<business_data, structured_data, content, completion_calls,
                   completion_outcome>>
    /\ UNCHANGED riskVars
    /\ UNCHANGED analysisVars
    /\ UNCHANGED queryVars

NextReparse == ParseResponse \/ Reformat \/ Traditional \/ Reparse

SpecReparse == InitReparse /\ [][NextReparse]_vars

-----------------------------------------------------------------------------
(* One call of query_assistant, from its first statement to its return *)

InitPoll ==
    /\ pc = "rag_query"
    /\ business_data \in {AcmeRecord, LegacyRecord}
    /\ structured_data = from_dict(business_data)
    /\ use_rag = TRUE
    /\ hash_seed \in HashSeeds
    /\ now \in Timestamps
    /\ analysis_id = ""
    /\ prompt = ""
    /\ content = PyNone
    /\ rag_response = PyNone
    /\ completion_calls = 0
    /\ completion_outcome = "none"
    /\ result = NoValue
    /\ NoQuery
    /\ first_result = NoValue
    /\ NoEvent

SpecPoll == InitPoll /\ [][QueryAssistant]_vars

\* the call keeps executing: every statement of it returns or raises
SpecPollFair == SpecPoll /\ WF_vars(QueryAssistant)

----------------------------------------------------------------------------
(* The prompt builder applied to records with every section's fields *)

PromptRecords ==
    { MkDict([companyName |-> a, location |-> b, annualRevenue |-> c, totalAssets |-> d,
              creditRating |-> e, primaryMarkets |-> f, keyProducts |-> g,
              recentDevelopments |-> h, additionalInfo |-> i, documents |-> j]) :
        a \in {Absent, PyStr("Acme Trucking")},
        b \in {Absent, PyStr(""), PyStr("Dallas, TX")},
        c \in {Absent, PyInt(0), PyInt(250000)},
        d \in {Absent, PyInt(1234567)},
        e \in {Absent, PyStr(""), PyStr("AA")},
        f \in {Absent, PyList(<<PyStr("Texas"), PyStr("Ohio")>>)},
        g \in {Absent, PyList(<<>>),
               PyList(<<PyStr("Haulage"),
                        PyDict(<<<<"description", PyStr("Cold chain")>>>>)>>)},
        h \in {Absent, PyStr("New depot")},
        i \in {Absent, PyDict(<<>>), PyDict(<<<<"Fleet", PyStr("10 trucks")>>>>),
               PyDict(<<<<"Credit Rating", PyStr("AAA")>>, <<"Note", PyInt(3)>>>>)},
        j \in {Absent, PyList(<<PyStr("w9.pdf")>>)} }

InitPrompt ==
    /\ pc = "prompt"
    /\ business_data \in PromptRecords \cup {NullLocationRecord}
    /\ now \in Timestamps
    /\ analysis_id = _generate_analysis_id(business_data, now).v
    /\ structured_data = BusinessData(business_data)
    /\ prompt = ""
    /\ content = PyNone
    /\ completion_calls = 0
    /\ completion_outcome = "none"
    /\ result = NoValue
    /\ use_rag = FALSE /\ hash_seed = 0 /\ rag_response = PyNone
    /\ NoQuery
    /\ first_result = NoValue
    /\ NoEvent

SpecPrompt == InitPrompt /\ [][BuildPrompt]_vars

----------------------------------------------------------------------------
(* The two normalizers applied to requests with canonical and legacy keys *)

AliasRecords ==
    { MkDict([companyName |-> a[1], company |-> a[2],
              businessType |-> b[1], businessStructure |-> b[2],
              yearsInOperation |-> c[1], yearsInBusiness |-> c[2],
              totalAssets |-> d[1], annualRevenue |-> d[2], totalEquipmentCost |-> d[3],
              keyProducts |-> e[1], mainProducts |-> e[2], leadEquipments |-> e[3]]) :
        a \in {Absent, PyStr("Acme Trucking"), PyNone} \X {Absent, PyStr("Old Co")},
        b \in {Absent, PyStr("")} \X {Absent, PyStr("LLC")},
        c \in {Absent, PyInt(0)} \X {Absent, PyInt(5)},
        d \in {Absent, PyInt(900)} \X {Absent, PyInt(0)} \X {Absent, PyInt(70)},
        e \in {Absent, PyList(<<>>)} \X {Absent, PyList(<<PyStr("Haulage")>>)}
              \X {Absent, PyList(<<PyStr("Truck")>>)} }

\* BusinessData(**business_data) is about to run (pc = "normalize"), or
\* BusinessRiskData.from_dict(business_data) is (pc = "start")
InitNorm ==
    /\ pc \in {"normalize", "start"}
    /\ business_data \in AliasRecords
    /\ now \in Timestamps
    /\ analysis_id = ""
    /\ structured_data = NoValue
    /\ prompt = ""
    /\ content = PyNone
    /\ completion_calls = 0
    /\ completion_outcome = "none"
    /\ result = NoValue
    /\ use_rag = FALSE /\ hash_seed = 1 /\ rag_response = PyNone
    /\ NoQuery
    /\ first_result = NoValue
    /\ NoEvent

NextNorm == Normalize \/ AssessRisk

SpecNorm == InitNorm /\ [][NextNorm]_vars

----------------------------------------------------------------------------
(* lambda_handler of business_analysis_handler and of risk_assessment_handler *)

Handlers == {"business_analysis", "risk_assessment"}

HealthPath(h) ==
    IF h = "business_analysis" THEN "/business-analysis/health" ELSE "/risk-assessment/health"

\* the names under "data" in the successful response
DataFields(h) ==
    IF h = "business_analysis"
    THEN {"analysisId"} \cup {TextFields[i] : i \in 1..Len(TextFields)}
    ELSE {"assessmentId"} \cup RiskFields

\* the response with success False and an error message
ErrorResponse(status, message) ==
    [statusCode |-> status, body |-> [success |-> FALSE, error |-> message]]

\* the response with success True for the value the service returned
SuccessResponse(h, r) ==
    [statusCode |-> 200, body |-> [success |-> TRUE, data |-> [f \in DataFields(h) |-> r[f]]]]

\* the dict d as the mapping the services read with get
AsMapping(d) == [k \in {d.v[i][1] : i \in 1..Len(d.v)} |-> DictGet(d, k, PyNone)]

\* event["body"]: JSON texts, values that are no text, and no body at all
EventBodies(h) ==
    {Absent, PyNone, PyList(<<PyInt(1)>>),
     PyDict(<<<<"companyName", PyStr("Acme Trucking")>>>>),
     PyStr("{\"companyName\": \"Acme Trucking\", \"location\": \"Dallas, TX\"}"),
     PyStr("{\"company\": \"Old Co\", \"annualRevenue\": 250000}"),
     PyStr("{}"), PyStr("[1]"), PyStr("\"Acme\""), PyStr("7"),
     PyStr("{\"companyName\": \"Acme"), PyStr(""), PyStr("companyName=Acme")}
    \cup (IF h = "risk_assessment"
          THEN {PyStr("{\"companyName\": [\"Acme\"]}"), PyStr("{\"annualRevenue\": \"n/a\"}")}
          ELSE {PyStr("{\"companyName\": null}")})

\* milliseconds context.get_remaining_time_in_millis() reports
RemainingTimes == {5000, 20000, 60000}

InitHandler ==
    /\ pc = "event"
    /\ handler \in Handlers
    /\ event \in [httpMethod : {PyStr("POST"), PyStr("OPTIONS")},
                  path : {PyNone, PyStr(HealthPath(handler))},
                  body : EventBodies(handler)]
    /\ context \in {[present |-> FALSE, remaining |-> 0]}
                   \cup {[present |-> TRUE, remaining |-> r] : r \in RemainingTimes}
    /\ api_key \in BOOLEAN
    /\ response = NoResponse
    /\ business_data = MkDict([companyName |-> Absent])
    /\ use_rag \in (IF handler = "risk_assessment" THEN BOOLEAN ELSE {FALSE})
    /\ hash_seed \in (IF handler = "risk_assessment" THEN HashSeeds ELSE {0})
    /\ now \in Timestamps
    /\ analysis_id = ""
    /\ structured_data = NoValue
    /\ prompt = ""
    /\ content = PyNone
    /\ rag_response = PyNone
    /\ completion_calls = 0
    /\ completion_outcome = "none"
    /\ result = NoValue
    /\ NoQuery
    /\ first_result = NoValue
    /\ other = <<>>

\* Receive with no except clause around the body of lambda_handler
Receive_uncaught ==
    /\ pc = "event"
    /\ LET body == IF IsStr(event.body) THEN json_loads(event.body.v)
                   ELSE IF event.body = Absent THEN PyDict(<<>>)
                   ELSE event.body
       IN  IF event.httpMethod = PyStr("OPTIONS")
           THEN /\ response' = [statusCode |-> 200,
                                body |-> [message |-> "CORS preflight successful"]]
                /\ pc' = "responded" /\ UNCHANGED business_data
           ELSE IF event.path = PyStr(HealthPath(handler))
           THEN /\ response' = [statusCode |-> 200, body |-> [status |-> "healthy"]]
                /\ pc' = "responded" /\ UNCHANGED business_data
           ELSE IF IsRaised(body)
           THEN /\ response' = ErrorResponse(400, "Invalid JSON in request body")
                /\ pc' = "responded" /\ UNCHANGED business_data
           ELSE IF body.t # "dict"
           THEN /\ response' = Raised("AttributeError")
                /\ pc' = "responded" /\ UNCHANGED business_data
           ELSE IF context.present /\ context.remaining < 10000
           THEN /\ response' = ErrorResponse(408,
                                   "Request timeout - insufficient time to process")
                /\ pc' = "responded" /\ UNCHANGED business_data
           ELSE IF ~api_key
           THEN /\ response' = ErrorResponse(500, "OpenAI API key not configured")
                /\ pc' = "responded" /\ UNCHANGED business_data
           ELSE \/ /\ response' = Raised("Exception")
                   /\ pc' = "responded" /\ UNCHANGED business_data
                \/ /\ business_data' = AsMapping(body)
                   /\ pc' = "dispatch" /\ UNCHANGED response
    /\ UNCHANGED <<handler, event, context, api_key, other>>
    /\ UNCHANGED <<structured_data, content, completion_calls, completion_outcome, result>>
    /\ UNCHANGED <<riskVars, analysisVars, queryVars, first_result>>

\* Receive testing the API key before the remaining time
Receive_key_first ==
    /\ pc = "event"
    /\ LET body == IF IsStr(event.body) THEN json_loads(event.body.v)
                   ELSE IF event.body = Absent THEN PyDict(<<>>)
                   ELSE event.body
       IN  IF event.httpMethod = PyStr("OPTIONS")
           THEN /\ response' = [statusCode |-> 200,
                                body |-> [message |-> "CORS preflight successful"]]
                /\ pc' = "responded" /\ UNCHANGED business_data
           ELSE IF event.path = PyStr(HealthPath(handler))
           THEN /\ response' = [statusCode |-> 200, body |-> [status |-> "healthy"]]
                /\ pc' = "responded" /\ UNCHANGED business_data
           ELSE IF IsRaised(body)
           THEN /\ response' = ErrorResponse(400, "Invalid JSON in request body")
                /\ pc' = "responded" /\ UNCHANGED business_data
           ELSE IF body.t # "dict"
           THEN /\ response' = ErrorResponse(500, "Internal server error: AttributeError")
                /\ pc' = "responded" /\ UNCHANGED business_data
           ELSE IF ~api_key
           THEN /\ response' = ErrorResponse(500, "OpenAI API key not configured")
                /\ pc' = "responded" /\ UNCHANGED business_data
           ELSE IF context.present /\ context.remaining < 10000
           THEN /\ response' = ErrorResponse(408,
                                   "Request timeout - insufficient time to process")
                /\ pc' = "responded" /\ UNCHANGED business_data
           ELSE \/ /\ response' = ErrorResponse(500, "Internal server error: Exception")
                   /\ pc' = "responded" /\ UNCHANGED business_data
                \/ /\ business_data' = AsMapping(body)
                   /\ pc' = "dispatch" /\ UNCHANGED response
    /\ UNCHANGED <<handler, event, context, api_key, other>>
    /\ UNCHANGED <<structured_data, content, completion_calls, completion_outcome, result>>
    /\ UNCHANGED <<riskVars, analysisVars, queryVars, first_result>>

\* Receive keeping the request in a place the invocations of a process share
Receive_shared_body ==
    /\ pc = "event"
    /\ LET body == IF IsStr(event.body) THEN json_loads(event.body.v)
                   ELSE IF event.body = Absent THEN PyDict(<<>>)
                   ELSE event.body
       IN  IF event.httpMethod = PyStr("OPTIONS")
           THEN /\ response' = [statusCode |-> 200,
                                body |-> [message |-> "CORS preflight successful"]]
                /\ pc' = "responded" /\ UNCHANGED business_data
           ELSE IF event.path = PyStr(HealthPath(handler))
           THEN /\ response' = [statusCode |-> 200, body |-> [status |-> "healthy"]]
                /\ pc' = "responded" /\ UNCHANGED business_data
           ELSE IF IsRaised(body)
           THEN /\ response' = ErrorResponse(400, "Invalid JSON in request body")
                /\ pc' = "responded" /\ UNCHANGED business_data
           ELSE IF body.t # "dict"
           THEN /\ response' = ErrorResponse(500, "Internal server error: AttributeError")
                /\ pc' = "responded" /\ UNCHANGED business_data
           ELSE IF context.present /\ context.remaining < 10000
           THEN /\ response' = ErrorResponse(408,
                                   "Request timeout - insufficient time to process")
                /\ pc' = "responded" /\ UNCHANGED business_data
           ELSE IF ~api_key
           THEN /\ response' = ErrorResponse(500, "OpenAI API key not configured")
                /\ pc' = "responded" /\ UNCHANGED business_data
           ELSE \/ /\ response' = ErrorResponse(500, "Internal server error: Exception")
                   /\ pc' = "responded" /\ UNCHANGED business_data
                \/ /\ business_data' = (IF other # <<>> THEN other[2] ELSE AsMapping(body))
                   /\ pc' = "dispatch" /\ UNCHANGED response
    /\ UNCHANGED <<handler, event, context, api_key, other>>
    /\ UNCHANGED <<structured_data, content, completion_calls, completion_outcome, result>>
    /\ UNCHANGED <<riskVars, analysisVars, queryVars, first_result>>

\* lambda_handler up to the service object: preflight, health, the body, the
\* first test of the remaining time, the API key, the constructor of the
\* service; an exception anywhere gives the 500 response of the except clause
Receive ==
    /\ pc = "event"
    /\ LET body == IF IsStr(event.body) THEN json_loads(event.body.v)
                   ELSE IF event.body = Absent THEN PyDict(<<>>)
                   ELSE event.body
       IN  IF event.httpMethod = PyStr("OPTIONS")
           THEN /\ response' = [statusCode |-> 200,
                                body |-> [message |-> "CORS preflight successful"]]
                /\ pc' = "responded" /\ UNCHANGED business_data
           ELSE IF event.path = PyStr(HealthPath(handler))
           THEN /\ response' = [statusCode |-> 200, body |-> [status |-> "healthy"]]
                /\ pc' = "responded" /\ UNCHANGED business_data
           ELSE IF IsRaised(body)
           THEN /\ response' = ErrorResponse(400, "Invalid JSON in request body")
                /\ pc' = "responded" /\ UNCHANGED business_data
           ELSE IF body.t # "dict"
           THEN /\ response' = ErrorResponse(500, "Internal server error: AttributeError")
                /\ pc' = "responded" /\ UNCHANGED business_data
           ELSE IF context.present /\ context.remaining < 10000
           THEN /\ response' = ErrorResponse(408,
                                   "Request timeout - insufficient time to process")
                /\ pc' = "responded" /\ UNCHANGED business_data
           ELSE IF ~api_key
           THEN /\ response' = ErrorResponse(500, "OpenAI API key not configured")
                /\ pc' = "responded" /\ UNCHANGED business_data
           ELSE \/ /\ response' = ErrorResponse(500, "Internal server error: Exception")
                   /\ pc' = "responded" /\ UNCHANGED business_data
                \/ /\ business_data' = AsMapping(body)
                   /\ pc' = "dispatch" /\ UNCHANGED response
    /\ UNCHANGED <<handler, event, context, api_key, other>>
    /\ UNCHANGED <<structured_data, content, completion_calls, completion_outcome, result>>
    /\ UNCHANGED <<riskVars, analysisVars, queryVars, first_result>>

\* the second test of the remaining time, which has not grown since the
\* first, and the call of generate_analysis or assess_risk
Dispatch ==
    /\ pc = "dispatch"
    /\ \E r \in RemainingTimes \cup {context.remaining} :
          /\ r <= context.remaining
          /\ context' = [context EXCEPT !.remaining = r]
          /\ IF context.present /\ r < 30000
             THEN /\ response' = ErrorResponse(408,
                                     "Request timeout - insufficient time for AI processing")
                  /\ pc' = "responded"
             ELSE pc' = "start" /\ UNCHANGED response
    /\ UNCHANGED <<handler, event, api_key, other>>
    /\ UNCHANGED <<business_data, structured_data, content, completion_calls,
                   completion_outcome, result>>
    /\ UNCHANGED <<riskVars, analysisVars, queryVars, first_result>>

\* the service has returned or raised: the 200 response with the fields of the
\* result, or the 500 response of the except clause
Respond ==
    /\ pc = "done"
    /\ response' = IF IsRaised(result)
                   THEN ErrorResponse(500, "Internal server error: " \o result.error)
                   ELSE SuccessResponse(handler, result)
    /\ pc' = "responded"
    /\ UNCHANGED <<handler, event, context, api_key, other>>
    /\ UNCHANGED <<business_data, structured_data, content, completion_calls,
                   completion_outcome, result>>
    /\ UNCHANGED <<riskVars, analysisVars, queryVars, first_result>>

NextHandler ==
    \/ Receive
    \/ Dispatch
    \/ handler = "business_analysis" /\ NextBA
    \/ handler = "risk_assessment" /\ NextRisk
    \/ Respond

SpecHandler == InitHandler /\ [][NextHandler]_vars

-----------------------------------------------------------------------------
(* Two invocations of the handlers in one process, their steps interleaved *)

\* what one invocation of lambda_handler works on: every variable but the
\* environment and the hash seed, which belong to the process
Locals ==
    <<pc, business_data, now, analysis_id, structured_data, prompt, content,
      completion_calls, completion_outcome, result, use_rag, rag_response, run_status,
      elapsed, retrievals, runs_created, messages, first_result, handler, event, context,
      response>>

\* the events of the two invocations
PairEvents ==
    [httpMethod : {PyStr("POST")}, path : {PyNone},
     body : {PyStr("{\"companyName\": \"Acme Trucking\", \"location\": \"Dallas, TX\"}"),
             PyStr("{\"company\": \"Old Co\", \"annualRevenue\": 250000}"),
             PyStr("[1]")}]

\* the events answered without a call of the service; an invocation that
\* queries the assistant is interleaved with one of these
ShortEvents == {e \in PairEvents : e.body = PyStr("[1]")}

\* Locals when lambda_handler of h is entered with event e and no context
EntryOf(h, e) ==
    <<"event", MkDict([companyName |-> Absent]), CHOOSE t \in Timestamps : TRUE, "", NoValue,
      "", PyNone, 0, "none", NoValue, FALSE, PyNone, "none", 0, 0, 0, NotListed, NoValue,
      h, e, [present |-> FALSE, remaining |-> 0], NoResponse>>

InitPair ==
    /\ pc = "event"
    /\ handler \in Handlers
    /\ event \in PairEvents
    /\ context = [present |-> FALSE, remaining |-> 0]
    /\ api_key \in BOOLEAN
    /\ response = NoResponse
    /\ business_data = MkDict([companyName |-> Absent])
    /\ use_rag \in (IF handler = "risk_assessment" THEN BOOLEAN ELSE {FALSE})
    /\ hash_seed \in HashSeeds
    /\ now \in Timestamps
    /\ analysis_id = ""
    /\ structured_data = NoValue
    /\ prompt = ""
    /\ content = PyNone
    /\ rag_response = PyNone
    /\ completion_calls = 0
    /\ completion_outcome = "none"
    /\ result = NoValue
    /\ NoQuery
    /\ first_result = NoValue
    /\ other \in {EntryOf(h, e) : h \in Handlers,
                                  e \in IF use_rag THEN ShortEvents ELSE PairEvents}

\* the process stops running one invocation and goes on with the other one
Switch ==
    /\ other # <<>>
    /\ other' = Locals
    /\ pc' = other[1]
    /\ business_data' = other[2]
    /\ now' = other[3]
    /\ analysis_id' = other[4]
    /\ structured_data' = other[5]
    /\ prompt' = other[6]
    /\ content' = other[7]
    /\ completion_calls' = other[8]
    /\ completion_outcome' = other[9]
    /\ result' = other[10]
    /\ use_rag' = other[11]
    /\ rag_response' = other[12]
    /\ run_status' = other[13]
    /\ elapsed' = other[14]
    /\ retrievals' = other[15]
    /\ runs_created' = other[16]
    /\ messages' = other[17]
    /\ first_result' = other[18]
    /\ handler' = other[19]
    /\ event' = other[20]
    /\ context' = other[21]
    /\ response' = other[22]
    /\ UNCHANGED <<api_key, hash_seed>>

NextPair == NextHandler \/ Switch

SpecPair == InitPair /\ [][NextPair]_vars

----------------------------------------------------------------------------
(* Properties of _parse_analysis_response *)

\* the parser has returned a BusinessAnalysis for a text
Parsed == pc = "done" /\ IsStr(content) /\ result.kind = "BusinessAnalysis"

\* business_data.get('location', '') is a string, so synthesis cannot raise
LocationIsText == IsStr(Get(business_data, "location", PyStr("")))

\* the lines the loop visits
ScannedLines == Split(Strip(content.v), "\n")

\* indices of the scanned lines that, trimmed, start with prefix p
LinesWith(p) == {i \in 1..Len(ScannedLines) : StartsWith(Strip(ScannedLines[i]), p)}

\* the rest of a line after its leading prefix p, trimmed
AfterPrefix(line, p) == Strip(SubSeq(Strip(line), Len(p) + 1, Len(Strip(line))))

\* C1: every text field and the identifier of the BusinessAnalysis returned by
\* the parser is non-empty, also when the overview was extracted and other
\* prefixes were missing.
C1_EveryFieldNonEmpty ==
    (pc = "done" /\ result.kind = "BusinessAnalysis") =>
        /\ \A i \in 1..Len(TextFields) : Len(result[TextFields[i]]) > 0
        /\ Len(result.analysisId) > 0

\* C5: the parser never raises; when an exception occurs inside it (a missing
\* text, or a non-string location met during synthesis) it returns the static
\* placeholder with the identifier it was given.
C5_ParserNeverRaises ==
    pc = "done" =>
        /\ result.kind = "BusinessAnalysis"
        /\ (\/ ~IsStr(content)
            \/ (content \in {PyStr(""), PyStr("Thanks.")} /\ ~LocationIsText))
           => /\ result.industryClassification = "Business Services"
              /\ result.businessOverview =
                     "Business analysis completed with available data."
              /\ result.marketPosition = "Market analysis pending"
              /\ result.analysisId = analysis_id

C5_Witness ==
    /\ pc = "done"
    /\ content = PyNone
    /\ result.kind = "BusinessAnalysis"
    /\ result.businessOverview = "Business analysis completed with available data."

\* C7: when the same prefix starts several lines, the field takes its value
\* from the first such line (stated for lines holding the prefix once, with a
\* non-empty value, and the six fields synthesis never rewrites once set).
C7_FirstOccurrenceKept ==
    (Parsed /\ LocationIsText) =>
        \A k \in 1..6 :
            LET p  == Prefixes[k].p
                at == LinesWith(p)
            IN  (/\ Cardinality(at) > 1
                 /\ \A i \in at : Find(Strip(ScannedLines[i]), p, 2) = 0
                 /\ AfterPrefix(ScannedLines[Least(at)], p) # "")
                => result[Prefixes[k].f] = AfterPrefix(ScannedLines[Least(at)], p)

\* C8: the value of a field is the rest of its line after the leading prefix,
\* trimmed, kept unchanged even when it holds the prefix string again (stated
\* for a text with exactly one line starting with the prefix).
C8_RestOfLineKept ==
    (Parsed /\ LocationIsText) =>
        \A k \in 1..6 :
            LET p  == Prefixes[k].p
                at == LinesWith(p)
            IN  (Cardinality(at) = 1 /\ AfterPrefix(ScannedLines[Least(at)], p) # "")
                => result[Prefixes[k].f] = AfterPrefix(ScannedLines[Least(at)], p)

\* C9 as stated: every extracted value, the overview included, is returned
\* unchanged.
C9_ExtractedNeverReplaced ==
    (Parsed /\ LocationIsText) =>
        LET f  == ExtractLines(content.v)
            ov == OverviewAfterParagraphs(content.v)
        IN  /\ \A k \in 1..6 :
                  f[Prefixes[k].f] # "" => result[Prefixes[k].f] = f[Prefixes[k].f]
            /\ ov # "" => result.businessOverview = ov

\* C9 amended: when the parser returns normally, a value extracted for one of
\* the six other fields, and an extracted overview of at least 20 characters,
\* is returned unchanged; an extracted overview shorter than 20 characters is
\* replaced by the synthesized overview; when an exception occurs inside the
\* parser the static placeholder replaces every extracted value.
C9_ExtractedKeptUnlessShortOverview ==
    (pc = "done" /\ IsStr(content)) =>
        LET f  == ExtractLines(content.v)
            ov == OverviewAfterParagraphs(content.v)
        IN  IF NeedsSynthesis(ov) /\ ~LocationIsText
            THEN result = PlaceholderAnalysis(analysis_id)
            ELSE /\ result.kind = "BusinessAnalysis"
                 /\ \A k \in 1..6 :
                       f[Prefixes[k].f] # "" => result[Prefixes[k].f] = f[Prefixes[k].f]
                 /\ Len(ov) >= MinOverviewLen => result.businessOverview = ov
                 /\ Len(ov) < MinOverviewLen
                       => result.businessOverview = SynthesizedOverview(business_data)

\* an overview shorter than 20 characters and another field were extracted,
\* and synthesis replaced the former and kept the latter
C9_Witness ==
    /\ Parsed
    /\ ExtractLines(content.v).businessOverview = "Small firm."
    /\ ExtractLines(content.v).industryClassification = "Retail"
    /\ result.industryClassification = "Retail"
    /\ result.businessOverview # "Small firm."
    /\ result.marketPosition = "Established market participant"

\* C10: the synthesized overview names the company and has the industry, years
\* and location clauses exactly when the canonical record's industry, years in
\* operation and location (composed from city and state where need be) are
\* non-empty.
\* (Stated for requests that name the company, give no zero years, and give a
\* location or both a city and a state.)
C10_OverviewFromCanonicalRecord ==
    (/\ Parsed /\ LocationIsText
     /\ NeedsSynthesis(OverviewAfterParagraphs(content.v))
     /\ {"companyName", "company"} \cap DOMAIN business_data # {}
     /\ Truthy(Get(business_data, "yearsInOperation", PyInt(1)))
     /\ \/ "location" \in DOMAIN business_data
        \/ {"businessCity", "businessState"} \subseteq DOMAIN business_data) =>
        LET d == structured_data
        IN  result.businessOverview =
                PyFormat(d.company_name) \o " is an established business"
                \o (IF Truthy(d.industry)
                    THEN " in the " \o PyFormat(d.industry) \o " sector" ELSE "")
                \o (IF Truthy(d.years_in_operation)
                    THEN " with " \o PyFormat(d.years_in_operation)
                         \o " years of operational experience" ELSE "")
                \o (IF Strip(d.location.v) # ""
                    THEN " based in " \o PyFormat(d.location) ELSE "")
                \o "."

----------------------------------------------------------------------------
(* Properties of generate_analysis *)

----------------------------------------------------------------------------
(* Properties of assess_risk *)

\* C2 as stated: whatever the request and whatever the assistant and the
\* completion service do, every field of the RiskAssessmentResult that
\* assess_risk returns is a non-empty string.
C2_RiskFieldsNonEmpty ==
    (pc = "done" /\ result.kind = "RiskAssessmentResult") =>
        \A f \in RiskFields \cup {"assessmentId"} : IsStr(result[f]) /\ result[f].v # ""

\* C4 as stated: when the completion request of the traditional path fails, assess_risk
\* does not raise; it returns the canned fallback built for the company the
\* request names: overallRiskLevel "Medium", assessmentId RA_<hash>_FALLBACK
\* with the hash of that name, and that name in the review notice.
C4_TraditionalFailureGivesFallback ==
    (pc = "done" /\ ~use_rag /\ completion_outcome = "failed") =>
        LET name == IF "companyName" \in DOMAIN business_data
                    THEN business_data["companyName"]
                    ELSE IF "company" \in DOMAIN business_data
                         THEN business_data["company"]
                    ELSE PyStr("Unknown")
        IN  /\ result.kind = "RiskAssessmentResult"
            /\ result.overallRiskLevel = PyStr("Medium")
            /\ result.assessmentId
                 = PyStr("RA_" \o IntStr(PyHash(hash_seed, name)) \o "_FALLBACK")
            /\ result.riskScore
                 = PyStr("Risk assessment for " \o PyFormat(name) \o " requires manual review")
            /\ result.riskSummary
                 = PyStr("Manual risk assessment and due diligence required for complete evaluation")

C4_Witness ==
    /\ pc = "done"
    /\ ~use_rag
    /\ completion_outcome = "failed"
    /\ completion_calls = 1
    /\ "companyName" \notin DOMAIN business_data
    /\ "company" \in DOMAIN business_data
    /\ result.kind = "RiskAssessmentResult"
    /\ result.riskScore = PyStr("Risk assessment for Old Co requires manual review")

\* _parse_rag_risk_response has received the content of its completion, the
\* only one so far, and is over
SecondStageReply ==
    /\ pc \in {"done", "traditional"}
    /\ use_rag /\ Truthy(rag_response) /\ Strip(rag_response.v) # ""
    /\ completion_calls = 1 /\ completion_outcome = "answered"
    /\ IsStr(content)

\* C6 as stated: a second-stage response that is not one JSON value (a truncated object,
\* say), or that is a JSON value other than an object, makes
\* _parse_rag_risk_response return the canned fallback for the company: no
\* error escapes and no field of the response is kept.
C6_UndecodableReplyGivesFallback ==
    (/\ SecondStageReply
     /\ content.v \in UndecodableReplies \cup NonObjectReplies) =>
        /\ pc = "done"
        /\ result.kind = "RiskAssessmentResult"
        /\ result = _create_fallback_assessment(structured_data.companyName, hash_seed)
        /\ result.overallRiskLevel = PyStr("Medium")
        /\ result.assessmentId
             = PyStr("RA_" \o IntStr(PyHash(hash_seed, structured_data.companyName))
                     \o "_FALLBACK")

C6_Witness ==
    /\ pc = "done"
    /\ use_rag
    /\ completion_outcome = "answered"
    /\ content = PyStr("{\"overallRiskLevel\": \"High\", \"riskScore\": \"72 of")
    /\ result.kind = "RiskAssessmentResult"
    /\ result.overallRiskLevel = PyStr("Medium")
    /\ result.riskScore = PyStr("Risk assessment for Acme Trucking requires manual review")

\* the canned default of each field read from the decoded object
CannedDefault ==
    [overallRiskLevel     |-> "Medium",
     riskScore            |-> "Risk score calculation in progress",
     financialRisk        |-> "Financial risk assessment pending",
     operationalRisk      |-> "Operational risk analysis required",
     marketRisk           |-> "Market risk evaluation in progress",
     complianceRisk       |-> "Compliance risk assessment pending",
     riskFactors          |-> "Risk factor identification in progress",
     mitigationStrategies |-> "Risk mitigation strategies pending",
     riskSummary          |-> "Risk assessment summary in progress"]

\* the second completion answered with an unfenced text that is a JSON object
ObjectReply ==
    /\ pc = "done" /\ use_rag /\ completion_outcome = "answered" /\ IsStr(content)
    /\ content.v \in JsonReplies
    /\ ~StartsWith(content.v, Fence)

\* C11: for a second-stage response that decodes to a JSON object, each of the
\* nine fields equals the object's value under its name when the key is
\* present and the field's own canned default when it is absent; the
\* identifier is RA_<hash of the company name>_<businessId>.
C11_FieldsFromObjectOrDefault ==
    ObjectReply =>
        LET members == json_loads(content.v).v
            at(f)   == {i \in 1..Len(members) : members[i][1] = f}
            name    == IF "companyName" \in DOMAIN business_data
                       THEN business_data["companyName"]
                       ELSE IF "company" \in DOMAIN business_data
                            THEN business_data["company"] ELSE PyStr("")
            bid     == IF "businessId" \in DOMAIN business_data
                       THEN business_data["businessId"] ELSE PyStr("")
        IN  /\ result.kind = "RiskAssessmentResult"
            /\ \A f \in RiskFields :
                  /\ at(f) = {} => result[f] = PyStr(CannedDefault[f])
                  /\ \A i \in at(f) : result[f] = members[i][2]
            /\ result.assessmentId
                 = PyStr("RA_" \o IntStr(PyHash(hash_seed, name)) \o "_" \o PyFormat(bid))

\* a present key with an empty value is kept, an absent key gets its default
C11_Witness ==
    /\ ObjectReply
    /\ content = PyStr("{\"riskScore\": \"\"}")
    /\ business_data = MkDict([companyName |-> PyStr("Acme Trucking"),
                               businessId |-> PyStr("B7")])
    /\ result.kind = "RiskAssessmentResult"
    /\ result.riskScore = PyStr("")
    /\ result.financialRisk = PyStr("Financial risk assessment pending")
    /\ hash_seed = 1 /\ result.assessmentId = PyStr("RA_2_B7")

----------------------------------------------------------------------------
(* Properties of _generate_analysis_id *)

\* C12: the identifier is <CLEAN>_BA_<unix seconds>, CLEAN being the company
\* name without the characters other than alphanumerics, space, hyphen and
\* underscore, with spaces replaced by underscores, uppercased; CLEAN is cut to
\* its first 30 characters exactly when <CLEAN>_BA_<unix seconds> is longer
\* than 60 characters.
C12_IdentifierFormat ==
    pc = "normalize" =>
        \A c \in IdCases :
            (\/ Get(business_data, "companyName", PyNone) = PyStr(c.name)
             \/ /\ "companyName" \notin DOMAIN business_data
                /\ Get(business_data, "company", PyNone) = PyStr(c.name))
            => LET tail == "_BA_" \o IntStr(now)
               IN  analysis_id =
                     (IF Len(c.clean) + Len(tail) > 60
                      THEN SubSeq(c.clean, 1, 30) ELSE c.clean) \o tail

\* a name whose identifier is exactly 60 characters long is kept in full, and
\* one character more has it cut
C12_Witness ==
    /\ pc = "normalize"
    /\ now = 1732800000
    /\ \/ /\ business_data = MkDict([companyName |-> PyStr(Rep("a", 46))])
          /\ analysis_id = Rep("A", 46) \o "_BA_1732800000"
       \/ /\ business_data = MkDict([companyName |-> PyStr(Rep("a", 47))])
          /\ analysis_id = Rep("A", 30) \o "_BA_1732800000"
       \/ /\ business_data = MkDict([companyName |-> PyStr("Tech Corp!!")])
          /\ analysis_id = "TECH_CORP_BA_1732800000"

----------------------------------------------------------------------------
(* Properties of the normalizers *)

\* C13: when the request has no "location" key, the normalized location is
\* the city and the state joined by ", " when both are given, the city alone
\* when only the city is given, and empty when neither is given (stated for
\* the record either normalizer has built).
C13_LocationComposed ==
    (structured_data # NoValue /\ "location" \notin DOMAIN business_data) =>
        LET city  == Get(business_data, "businessCity", PyStr(""))
            state == Get(business_data, "businessState", PyStr(""))
        IN  structured_data.location =
                PyStr(IF Truthy(city) /\ Truthy(state)
                      THEN PyFormat(city) \o ", " \o PyFormat(state)
                      ELSE IF Truthy(city) THEN PyFormat(city)
                      ELSE "")

RECURSIVE FirstPresent(_, _)
\* the request's value under the first of keys that it holds, else default
FirstPresent(keys, default) ==
    IF keys = <<>> THEN default
    ELSE IF Head(keys) \in DOMAIN business_data THEN business_data[Head(keys)]
    ELSE FirstPresent(Tail(keys), default)

----------------------------------------------------------------------------
(* Properties of _create_analysis_prompt *)

\* the prompt has been rendered
Rendered == pc = "complete"

\* the headers of the five data sections
SectionHeaders ==
    {"=== COMPANY OVERVIEW ===", "=== FINANCIAL PROFILE ===", "=== MARKET INFORMATION ===",
     "=== PRODUCTS & SERVICES ===", "=== ADDITIONAL INFORMATION ==="}

\* C15: in every rendered prompt each section header that appears is followed
\* by at least one body line of its section.
C15_NoHeaderWithoutBody ==
    Rendered =>
        LET lines == Split(prompt, "\n")
        IN  \A k \in 1..Len(lines) :
                lines[k] \in SectionHeaders
                => /\ k < Len(lines)
                   /\ lines[k + 1] # ""
                   /\ lines[k + 1] \notin SectionHeaders

\* the lines before the additional-information section, whose lines are keyed
\* by the request
BeforeAdditional(lines) ==
    LET at == {k \in 1..Len(lines) : lines[k] = "=== ADDITIONAL INFORMATION ==="}
    IN  IF at = {} THEN lines ELSE SubSeq(lines, 1, Least(at) - 1)

EmptyFinancials ==
    /\ structured_data.annual_revenue = PyInt(0)
    /\ structured_data.total_assets = PyInt(0)
    /\ structured_data.credit_rating = PyStr("")

-----------------------------------------------------------------------------
(* Properties of RAGManager.query_assistant *)

\* query_assistant is at the head of its loop with the run still pending
Polling == pc = "rag_poll" /\ run_status \in PendingStatuses

\* the most status retrievals one call can make
MaxRetrievals == PollTimeout \div PollInterval + 1

\* C17: query_assistant always returns; with a run that stays queued or
\* in_progress it returns None at the first loop test made more than 60 seconds
\* after polling began, retrievals are at least 2 seconds apart, and one call
\* makes at most 31 of them
C17_QueryAlwaysReturns ==
    /\ <>(pc = "rag_parse")
    /\ [](retrievals <= MaxRetrievals /\ elapsed >= PollInterval * retrievals)
    /\ [][(Polling /\ elapsed > PollTimeout) => (pc' = "rag_parse" /\ rag_response' = PyNone)]_vars
    /\ [][(Polling /\ retrievals' = retrievals + 1) => elapsed <= PollTimeout]_vars

\* the run is still pending at the loop test made 62 seconds in, after 31 retrievals
C17_Witness == Polling /\ elapsed > PollTimeout /\ retrievals = MaxRetrievals


\* C18 as stated: within one request assess_risk issues at most one
\* chat-completion request and creates at most one assistant run.
C18_AtMostOneCompletion == completion_calls <= 1 /\ runs_created <= 1


-----------------------------------------------------------------------------
(* Properties of the parsers called twice *)

-----------------------------------------------------------------------------
(* Properties of the Lambda handlers *)

\* lambda_handler has returned for an event that is no preflight and no health request
Answered ==
    /\ pc = "responded"
    /\ event.httpMethod # PyStr("OPTIONS")
    /\ event.path # PyStr(HealthPath(handler))

\* C20: for an event that is neither a preflight nor a health request, each
\* handler returns (it never raises) a body with a success flag; success is
\* true exactly when the service returned a result, and then the status is 200
\* and data holds the identifier and every result field under its name; in
\* every other outcome success is false, the error is a non-empty string and
\* the status is not 200.
C20_HandlerResponse ==
    Answered =>
        /\ "statusCode" \in DOMAIN response
        /\ "success" \in DOMAIN response.body
        /\ response.body.success <=> result.kind \in {"BusinessAnalysis", "RiskAssessmentResult"}
        /\ response.body.success =>
              /\ response.statusCode = 200
              /\ DOMAIN response.body.data = DataFields(handler)
              /\ \A f \in DataFields(handler) : response.body.data[f] = result[f]
        /\ ~response.body.success =>
              /\ response.statusCode \in {400, 408, 500}
              /\ "error" \in DOMAIN response.body
              /\ response.body.error # ""

\* a body that is JSON but no object: the 500 response of the except clause
C20_Witness ==
    /\ Answered
    /\ event.body = PyStr("[1]")
    /\ response = ErrorResponse(500, "Internal server error: AttributeError")

-----------------------------------------------------------------------------
(* Properties of the paragraph fallback and of synthesis *)

\* the overview returned when the earlier tiers leave none of 20 characters:
\* the synthesized one, or the placeholder's when synthesis raises
LeftToSynthesis ==
    IF LocationIsText THEN SynthesizedOverview(business_data)
    ELSE PlaceholderAnalysis(analysis_id).businessOverview

\* C22: the paragraph fallback runs only when the loop extracted no overview
\* and the trimmed text is longer than 50 characters; the overview is then the
\* first paragraph (blank-line separated, trimmed) longer than 30 characters,
\* and stays empty, so that the overview returned is the one synthesis leaves,
\* when there is none. An extracted overview is never replaced by a paragraph.
C22_ParagraphFallback ==
    Parsed =>
        LET extracted == ExtractLines(content.v).businessOverview
            parts     == Split(content.v, "\n\n")
            long      == {i \in 1..Len(parts) : Len(Strip(parts[i])) > 30}
            runs      == extracted = "" /\ Len(Strip(content.v)) > 50
        IN  /\ (runs /\ long # {}) =>
                  result.businessOverview = Strip(parts[Least(long)])
            /\ (runs /\ long = {}) =>
                  result.businessOverview = LeftToSynthesis
            /\ (~runs /\ Len(extracted) >= 20) => result.businessOverview = extracted
            /\ (~runs /\ Len(extracted) < 20) =>
                  result.businessOverview = LeftToSynthesis

\* a text of 51 characters whose second paragraph, of 31, became the overview
C22_Witness ==
    /\ Parsed
    /\ content = PyStr("Eighteen chars now\n\nA paragraph of thirty-one chars")
    /\ result.businessOverview = "A paragraph of thirty-one chars"


\* the canned phrase synthesis gives to each of the six fields
CannedPhrase ==
    [industryClassification   |-> IF Truthy(Get(business_data, "industry", PyStr("")))
                                  THEN PyFormat(Get(business_data, "industry", PyStr("")))
                                  ELSE "Business Services",
     marketPosition           |-> "Established market participant",
     growthPotential          |-> "Moderate growth opportunities identified",
     strengthsAndAdvantages   |-> "Operational experience and market presence",
     marketOpportunities      |-> "Market expansion and service diversification",
     strategicRecommendations |-> "Continue operational excellence and explore growth opportunities"]

-----------------------------------------------------------------------------
(* Properties of the fence removal *)

\* the result _parse_rag_risk_response builds from the text it decodes
ResultOfText(text) ==
    LET parsed_data == json_loads(text)
    IN  IF IsRaised(parsed_data) \/ parsed_data.t # "dict"
        THEN _create_fallback_assessment(structured_data.companyName, hash_seed)
        ELSE ResultFromJson(parsed_data, structured_data, hash_seed)

\* the lines of the trimmed response, and the last line after the first that
\* is a fence and nothing else (0 when there is none)
ReplyLines == Split(Strip(content.v), "\n")

ClosingFence ==
    LET fences == {i \in 2..Len(ReplyLines) : Strip(ReplyLines[i]) = Fence}
    IN  IF fences = {} THEN 0 ELSE CHOOSE i \in fences : \A j \in fences : j <= i

Fenced == StartsWith(Strip(content.v), FenceJson)

\* C24 as stated: of a response beginning with the json fence only the
\* opening fence line and the closing fence line are removed before decoding,
\* so text after the closing fence stays and the response gives the fallback;
\* a response not beginning with the json fence is decoded unchanged.
C24_OnlyFenceLinesRemoved ==
    (SecondStageReply /\ pc = "done") =>
        LET last == Len(ReplyLines)
            kept == IF ClosingFence = 0 THEN SubSeq(ReplyLines, 2, last)
                    ELSE SubSeq(ReplyLines, 2, ClosingFence - 1)
                         \o SubSeq(ReplyLines, ClosingFence + 1, last)
        IN  result = ResultOfText(IF Fenced THEN Join(kept, "\n") ELSE Strip(content.v))

\* C24 amended: of a response beginning with the json fence the whole first
\* line is removed and so is everything from the last fence-only line to the
\* end, text after that line included; what is decoded is the lines between.
\* A response not beginning with the json fence is decoded unchanged.
C24_TailAfterFenceRemoved ==
    (SecondStageReply /\ pc = "done") =>
        LET last == Len(ReplyLines)
            kept == IF ClosingFence = 0 THEN SubSeq(ReplyLines, 2, last)
                    ELSE SubSeq(ReplyLines, 2, ClosingFence - 1)
        IN  result = ResultOfText(IF Fenced THEN Join(kept, "\n") ELSE Strip(content.v))

\* prose after the closing fence was dropped and the object was decoded
C24_Witness ==
    /\ SecondStageReply /\ pc = "done"
    /\ content = PyStr("~~~json\n{\"overallRiskLevel\": \"Low\"}\n~~~\nHope it helps")
    /\ result.overallRiskLevel = PyStr("Low")
    /\ result.riskScore = PyStr("Risk score calculation in progress")


-----------------------------------------------------------------------------
(* Properties of what query_assistant returns *)

\* query_assistant returns at this step
Returns == pc # "rag_parse" /\ pc' = "rag_parse"

\* C25: query_assistant returns a text only from a run that ended completed
\* and a thread listing with an assistant message, the text being that of the
\* first one; after the timeout, after a run that ended in another status, and
\* when it returns before any run exists (no assistant id, a failing call) it
\* returns None; whatever happens it returns None or a text and raises nothing.
C25_TextOnlyFromCompletedRun ==
    /\ [][(Returns /\ rag_response' # PyNone) =>
             /\ pc = "rag_poll" /\ run_status = "completed"
             /\ messages'.state = "listed"
             /\ \E i \in 1..Len(messages'.data) :
                   /\ messages'.data[i].role = "assistant"
                   /\ \A j \in 1..(i - 1) : messages'.data[j].role # "assistant"
                   /\ rag_response' = PyStr(messages'.data[i].content[1])]_vars
    /\ [][(Polling /\ elapsed > PollTimeout) => (Returns /\ rag_response' = PyNone)]_vars
    /\ [][(pc = "rag_poll" /\ run_status \in FinalStatuses \ {"completed"}) =>
             (Returns /\ rag_response' = PyNone /\ messages' = NotListed)]_vars
    /\ [][(pc = "rag_query" /\ Returns) => (rag_response' = PyNone /\ runs_created' = 0)]_vars
    /\ [](rag_response.t \in {"none", "str"})

\* the call returned the text of the newer of two assistant messages
C25_Witness ==
    /\ pc = "rag_parse"
    /\ rag_response = PyStr("Risk is moderate.")
    /\ messages.state = "listed" /\ Len(messages.data) = 3
    /\ runs_created = 1


-----------------------------------------------------------------------------
(* Properties of the order of the steps of generate_analysis *)

\* the step that follows each step of a call that goes on
StepAfter ==
    [start |-> "normalize", normalize |-> "prompt", prompt |-> "complete",
     complete |-> "parse", parse |-> "done"]

\* C26: generate_analysis generates the identifier, normalizes the request,
\* builds the prompt, issues one completion request and parses the response, in
\* this order, each once; a step that raises ends the call with the exception;
\* the parser runs only on the text of a completion that succeeded; the
\* identifier returned is the one generated before the completion request.
C26_StepsInOrder ==
    /\ [][/\ pc # "done"
          /\ pc' \in {StepAfter[pc], "done"}
          /\ (pc' = "done" /\ pc # "parse") => result'.kind = "raised"
          /\ pc = "start" => (pc' = "done" \/ analysis_id' = _generate_analysis_id(business_data, now).v)
          /\ pc # "start" => (analysis_id' = analysis_id /\ analysis_id # "")
          /\ pc = "normalize" => structured_data' = BusinessData(business_data)
          /\ pc # "normalize" => structured_data' = structured_data
          /\ pc = "prompt" => (pc' = "done" \/ prompt' = _create_analysis_prompt(structured_data).v)
          /\ pc # "prompt" => prompt' = prompt
          /\ completion_calls' = (IF pc = "complete" THEN 1 ELSE completion_calls)
          /\ pc = "parse" => result'.analysisId = analysis_id]_vars
    /\ [](pc = "parse" => (completion_calls = 1 /\ completion_outcome = "answered" /\ IsStr(content)))
    /\ []((pc = "done" /\ result.kind = "BusinessAnalysis") =>
             (completion_outcome = "answered" /\ result.analysisId = analysis_id))

\* a call that went through the five steps and returned its identifier
C26_Witness ==
    /\ pc = "done"
    /\ result.kind = "BusinessAnalysis"
    /\ completion_calls = 1
    /\ analysis_id = "ACME_TRUCKING_BA_1732800000"
    /\ result.analysisId = "ACME_TRUCKING_BA_1732800000"
    /\ result.businessOverview # PlaceholderAnalysis(analysis_id).businessOverview


-----------------------------------------------------------------------------
(* Properties of the reformat instruction *)

\* C27 as stated: a second-stage response that gives exactly the fields the
\* reformat instruction asks for supplies each of the nine fields of the
\* result from its own values.
C27_RequestedFieldsAreRead ==
    (SecondStageReply /\ pc = "done") =>
        LET parsed_data == json_loads(StripFence(Strip(content.v)))
            follows ==
                /\ ~IsRaised(parsed_data)
                /\ parsed_data.t = "dict"
                /\ {parsed_data.v[i][1] : i \in 1..Len(parsed_data.v)}
                     = {RequestedFields[k] : k \in 1..Len(RequestedFields)}
        IN  follows =>
                \A f \in RiskFields :
                    \E i \in 1..Len(parsed_data.v) : result[f] = parsed_data.v[i][2]


-----------------------------------------------------------------------------
(* Properties of the traditional path *)

\* the texts _parse_traditional_risk_response gives to the nine fields
TraditionalText ==
    [overallRiskLevel     |-> "Medium",
     riskScore            |-> "Risk score assessment based on available data",
     financialRisk        |-> "Financial risk analysis completed",
     operationalRisk      |-> "Operational risk assessment based on business profile",
     marketRisk           |-> "Market risk evaluation based on industry position",
     complianceRisk       |-> "Compliance risk assessment completed",
     riskFactors          |-> "Standard business risk factors identified",
     mitigationStrategies |-> "Risk mitigation strategies recommended",
     riskSummary          |-> "Comprehensive risk assessment completed with available data"]

\* _assess_traditional has returned what its parser built from a completion
\* that succeeded
TraditionalSuccess ==
    /\ pc = "done"
    /\ completion_outcome = "answered"
    /\ ~(RagPath /\ completion_calls = 1)
    /\ result.kind = "RiskAssessmentResult"

\* C28: on the traditional path the nine text fields of a successful run are
\* the same nine texts whatever the completion text is, so two runs that
\* differ only in that text return identical fields.
C28_FieldsIgnoreCompletionText ==
    TraditionalSuccess =>
        \A f \in RiskFields : result[f] = PyStr(TraditionalText[f])

\* a run whose completion text names another level and summary
C28_Witness ==
    /\ TraditionalSuccess
    /\ ~use_rag
    /\ content = PyStr("BUSINESS_OVERVIEW: A regional carrier with steady growth.")
    /\ result.overallRiskLevel = PyStr("Medium")
    /\ result.riskSummary
         = PyStr("Comprehensive risk assessment completed with available data")


-----------------------------------------------------------------------------
(* Properties of the RAG path without a first-stage answer *)

\* query_assistant was called and returned None, an empty or a blank text, and
\* _parse_rag_risk_response is over
NoFirstStageAnswer ==
    /\ use_rag
    /\ pc \in {"traditional", "done"}
    /\ ~RiskPromptRaises(structured_data)
    /\ (~Truthy(rag_response) \/ Strip(rag_response.v) = "")

\* C29 as stated: on the RAG path, when query_assistant gives no answer,
\* assess_risk returns the canned fallback, issues no completion request and
\* does not go on to the traditional path; the reformat completion is issued
\* only after a first-stage answer that is not blank.
C29_NoAnswerGivesFallback ==
    /\ NoFirstStageAnswer =>
          /\ pc = "done"
          /\ completion_calls = 0
          /\ result.kind = "RiskAssessmentResult"
          /\ result = _create_fallback_assessment(structured_data.companyName, hash_seed)
    /\ pc = "reformat" => (IsStr(rag_response) /\ Strip(rag_response.v) # "")


-----------------------------------------------------------------------------
(* Properties of the order of the tests of lambda_handler *)

Preflight == event.httpMethod = PyStr("OPTIONS")

HealthRequest == event.path = PyStr(HealthPath(handler))

BodyUndecodable == IsStr(event.body) /\ IsRaised(json_loads(event.body.v))

\* the body is a JSON object, a dict, or absent
BodyIsObject ==
    \/ event.body = Absent
    \/ event.body.t = "dict"
    \/ IsStr(event.body) /\ ~IsRaised(json_loads(event.body.v))
                         /\ json_loads(event.body.v).t = "dict"

\* lambda_handler returns r at this step
Returned(r) == pc' = "responded" /\ response' = r

\* lambda_handler returns a response with this status at this step
Status(code) == pc' = "responded" /\ response'.statusCode = code

\* the service is called only for a request that passes every test
ServiceOnlyAfterGates ==
    pc \notin {"event", "dispatch", "responded"} =>
        /\ ~Preflight /\ ~HealthRequest /\ ~BodyUndecodable
        /\ api_key
        /\ context.present => context.remaining >= 30000

SecondTimeTest ==
    pc = "dispatch" =>
        IF context'.present /\ context'.remaining < 30000
        THEN Returned(ErrorResponse(408, "Request timeout - insufficient time for AI processing"))
        ELSE pc' = "start" /\ response' = NoResponse

\* C30 as stated: each handler tests, in this order, a preflight (200), a
\* health request (200), a body that is not JSON (400), less than 10000 ms
\* left (408), a missing API key (500) and less than 30000 ms left (408); the
\* first test that applies decides the response, the service is called only
\* when none applies, and the time tests are skipped without a context.
C30_GatesInOrder ==
    /\ [][pc = "event" =>
             IF Preflight \/ HealthRequest
             THEN Status(200)
             ELSE IF BodyUndecodable
             THEN Status(400)
             ELSE IF context.present /\ context.remaining < 10000
             THEN Status(408)
             ELSE IF ~api_key
             THEN Status(500)
             ELSE TRUE]_vars
    /\ [][SecondTimeTest]_vars
    /\ []ServiceOnlyAfterGates

\* C30 amended: as stated, with two more outcomes in the order: a body that
\* is JSON but no object gives the 500 response of the except clause before
\* the first time test, and a service constructor that raises gives it between
\* the API key test and the second time test.
C30_GatesAndExceptClause ==
    /\ [][pc = "event" =>
             IF Preflight \/ HealthRequest
             THEN pc' = "responded" /\ response'.statusCode = 200
             ELSE IF BodyUndecodable
             THEN Returned(ErrorResponse(400, "Invalid JSON in request body"))
             ELSE IF ~BodyIsObject
             THEN Returned(ErrorResponse(500, "Internal server error: AttributeError"))
             ELSE IF context.present /\ context.remaining < 10000
             THEN Returned(ErrorResponse(408, "Request timeout - insufficient time to process"))
             ELSE IF ~api_key
             THEN Returned(ErrorResponse(500, "OpenAI API key not configured"))
             ELSE \/ Returned(ErrorResponse(500, "Internal server error: Exception"))
                  \/ pc' = "dispatch" /\ response' = NoResponse]_vars
    /\ [][SecondTimeTest]_vars
    /\ [](ServiceOnlyAfterGates /\ (pc \notin {"event", "responded"} => BodyIsObject))

\* too little time and no API key: the time test, which comes first, answered
C30_Witness ==
    /\ pc = "responded"
    /\ ~Preflight /\ ~HealthRequest
    /\ event.body = PyStr("{}")
    /\ context.present /\ context.remaining = 5000
    /\ ~api_key
    /\ response = ErrorResponse(408, "Request timeout - insufficient time to process")


-----------------------------------------------------------------------------
(* Properties of two interleaved invocations *)

\* the result the running invocation's service builds from its own request
\* and the answers it received
OwnResults ==
    IF handler = "business_analysis"
    THEN {_parse_analysis_response(content, business_data,
                                   _generate_analysis_id(business_data, now).v)}
    ELSE {ParseJsonReply(content, from_dict(business_data), hash_seed),
          _parse_traditional_risk_response(from_dict(business_data), hash_seed),
          _create_fallback_assessment(from_dict(business_data).companyName, hash_seed),
          _create_fallback_assessment(RequestCompany(business_data), hash_seed)}

====
